---- MODULE Spec2Model ----
(***************************************************************************)
(* Model of the article extraction engine of src/web_scraper.py            *)
(* (class WebScraper): URL validation, the result cache, the retried       *)
(* fetch, the content-type gate, the multi-strategy selection, the result  *)
(* formatting and the exception handlers of scrape_article.                *)
(*                                                                         *)
(* Text is modelled as a sequence of pieces (strings): a URL is the        *)
(* sequence of its lexical tokens, a message is the sequence of its        *)
(* literal parts and parameters, a result is the sequence of its lines'    *)
(* pieces.  Substring tests of the code become tests on adjacent tokens.   *)
(***************************************************************************)
EXTENDS Integers, Sequences, FiniteSets, TLC

(***************************************************************************)
(* Program constants                                                       *)
(***************************************************************************)
\* scrape_article: max_retries = 3
max_retries == 3
\* scrape_article: time.time() - cached_time < 3600
CacheTTL == 3600
\* scrape_article: len(self.extraction_cache) > 50
CacheLimit == 50
\* advanced_content_extraction: len(content) > 200
MinCandidateLen == 200
\* scrape_article: len(content) < 150
MinContentLen == 150
\* requests.Response.raise_for_status raises for 400 <= status < 600
ErrorStatusLow == 400
ErrorStatusHigh == 600
\* scrape_article, HTTPError handler: status_code >= 500
ServerErrorLow == 500
\* the three statuses the handler names
StatusForbidden == 403
StatusNotFound == 404
StatusRateLimited == 429

(***************************************************************************)
(* Bounds of the model                                                     *)
(***************************************************************************)
\* the clock value at construction of the scraper
StartTime == 100
\* how many clock values the model has past the expiry of an entry written
\* at StartTime
LateInstants == 0

(***************************************************************************)
(* URLs.  urlparse on the token sequence: the scheme is the token before   *)
(* the first ":", lower-cased; the netloc is the token after "//".         *)
(***************************************************************************)
\* str.lower() / re.IGNORECASE on the tokens the model uses
Lower(tok) ==
  CASE tok = "HTTP" -> "http"
    [] tok = "JavaScript" -> "javascript"
    [] tok = "TEXT" -> "text"
    [] tok = "HTML" -> "html"
    [] OTHER -> tok

\* tokens that hold a character outside \x00-\x7F
NonAsciiTokens == {"caf<U+00E9>"}

\* the lower-cased suffix of a token that a scheme pattern can match
SchemeSuffix(tok) ==
  CASE Lower(tok) \in {"javascript"} -> "javascript"
    [] Lower(tok) \in {"data", "metadata"} -> "data"
    [] Lower(tok) \in {"file", "profile"} -> "file"
    [] OTHER -> ""

urlparse_scheme(u) ==
  IF Len(u) >= 2 /\ u[2] = ":" /\ u[1] \notin {"//", "/", "?", "="} \cup NonAsciiTokens
  THEN Lower(u[1]) ELSE ""

urlparse_netloc(u) ==
  LET start == IF urlparse_scheme(u) # "" THEN 3 ELSE 1
  IN IF Len(u) >= start + 1 /\ u[start] = "//" /\ u[start + 1] \notin {"/", "?"}
     THEN u[start + 1] ELSE ""

\* re.search(pattern, url, re.IGNORECASE) for the four suspicious patterns
HasNonAscii(u) == \E i \in 1..Len(u) : u[i] \in NonAsciiTokens

HasSchemePattern(u, name) ==
  \E i \in 1..(Len(u) - 1) : SchemeSuffix(u[i]) = name /\ u[i + 1] = ":"

is_valid_url(u) ==
  /\ urlparse_scheme(u) \in {"http", "https"}
  /\ urlparse_netloc(u) # ""
  /\ ~HasNonAscii(u)
  /\ ~HasSchemePattern(u, "javascript")
  /\ ~HasSchemePattern(u, "data")
  /\ ~HasSchemePattern(u, "file")

\* the URLs already scraped when the model starts: http://host/<i>
WarmURL(i) == <<"http", ":", "//", "host", "/", ToString(i)>>

ValidURLs ==
  { WarmURL(1),
    <<"https", ":", "//", "host", "/", "a">> }

InvalidURLs ==
  { <<"ftp", ":", "//", "host">>,
    <<"JavaScript", ":", "alert(1)">>,
    <<"http", ":", "//">>,
    <<"http", ":", "//", "host", "/", "caf<U+00E9>">>,
    <<"http", ":", "//", "host", "/", "?", "u", "=", "data", ":", "x">>,
    <<"host", "/", "a">> }

URLs == ValidURLs \cup InvalidURLs

\* hashlib.md5(url.encode()).hexdigest(): a digest, taken as collision-free
\* on the URLs of the model
md5(u) == [md5 |-> u]

(***************************************************************************)
(* Pages.  A page is what one successful GET returns: its meta fields and, *)
(* for each of the four strategies, what the strategy computes on the      *)
(* sanitized tree of the page (or that it raises).                         *)
(***************************************************************************)
\* A text is a sequence of tokens: a blank or punctuation character, or a
\* run of other characters ("text900" is a run of 900 of them).
\* len(token)
TokLen(tok) ==
  CASE tok = "w2" -> 2
    [] tok = "w5" -> 5
    [] tok = "w6" -> 6
    [] tok = "menu16" -> 16
    [] tok = "promo40" -> 40
    [] tok = "text98" -> 98
    [] tok = "text99" -> 99
    [] tok = "text120" -> 120
    [] tok = "text198" -> 198
    [] tok = "text199" -> 199
    [] tok = "text180" -> 180
    [] tok = "text200" -> 200
    [] tok = "text201" -> 201
    [] tok = "text900" -> 900
    [] tok = "text950" -> 950
    [] tok = "text5000" -> 5000
    [] tok = "{\"headline\": \"H\"}" -> 17
    [] tok = "[{\"name\": \"N\"}]" -> 15
    [] tok = "[]" -> 2
    [] tok = "{headline" -> 9
    [] OTHER -> 1

\* len(text)
RECURSIVE TextLen(_)
TextLen(text) ==
  IF text = << >> THEN 0 ELSE TokLen(Head(text)) + TextLen(Tail(text))

\* '\n'.join(parts), each part a sequence of pieces
RECURSIVE Join(_)
Join(parts) ==
  IF Len(parts) = 0 THEN << >>
  ELSE IF Len(parts) = 1 THEN parts[1]
  ELSE parts[1] \o << "\n" >> \o Join(Tail(parts))

NoCandidate ==
  [raises |-> FALSE, text |-> << >>, score |-> 0, element_type |-> "",
   word_count |-> 0, paragraph_count |-> 0]

Raises ==
  [raises |-> TRUE, text |-> << >>, score |-> 0, element_type |-> "",
   word_count |-> 0, paragraph_count |-> 0]

Candidate(text, score, etype, words, paras) ==
  [raises |-> FALSE, text |-> text, score |-> score, element_type |-> etype,
   word_count |-> words, paragraph_count |-> paras]

NoMeta == [title |-> "", author |-> "", publish_date |-> "", description |-> ""]

\* an article page with all meta fields; the semantic candidate wins
PageArticle ==
  [id |-> "article", meta_raises |-> FALSE,
   meta |-> [title |-> "Title A", author |-> "Ann",
             publish_date |-> "2024-01-15T10:00:00Z", description |-> "About A"],
   strategies |-> << Candidate(<< "text900" >>, 130, "article", 150, 10),
                     Candidate(<< "text950" >>, 29, "div", 160, 10),
                     Candidate(<< "text900" >>, 96, "article", 150, 10),
                     Candidate(<< "text950" >>, 25, "div", 160, 10) >>]

\* a page with no meta field; two strategies raise, the other two tie
PagePlain ==
  [id |-> "plain", meta_raises |-> FALSE, meta |-> NoMeta,
   strategies |-> << Raises,
                     Candidate(<< "text201" >>, 12, "div", 40, 1),
                     Raises,
                     Candidate(<< "text900" >>, 12, "section", 150, 3) >>]

\* no strategy yields a text longer than 200 characters
PageThin ==
  [id |-> "thin", meta_raises |-> FALSE,
   meta |-> [NoMeta EXCEPT !.title = "Title T"],
   strategies |-> << Candidate(<< "text180" >>, 110, "article", 30, 2),
                     Candidate(<< "text200" >>, 30, "div", 33, 2),
                     NoCandidate,
                     Candidate(<< "text120" >>, 14, "div", 20, 1) >>]

\* the only text longer than 200 characters has score int(density*100) = 0
PageSparse ==
  [id |-> "sparse", meta_raises |-> FALSE, meta |-> NoMeta,
   strategies |-> << NoCandidate,
                     Candidate(<< "text120" >>, 3, "div", 20, 0),
                     Candidate(<< "text201" >>, 0, "div", 40, 0),
                     NoCandidate >>]

\* every strategy raises
PageBroken ==
  [id |-> "broken", meta_raises |-> FALSE, meta |-> NoMeta,
   strategies |-> << Raises, Raises, Raises, Raises >>]

\* extract_comprehensive_metadata raises on this page
PageBadMeta ==
  [id |-> "badmeta", meta_raises |-> TRUE, meta |-> NoMeta,
   strategies |-> << Candidate(<< "text900" >>, 130, "article", 150, 10),
                     NoCandidate, NoCandidate, NoCandidate >>]

Pages == {PageArticle, PagePlain, PageThin, PageSparse, PageBroken, PageBadMeta}

NoPage == [id |-> "", meta_raises |-> FALSE, meta |-> NoMeta,
           strategies |-> << NoCandidate, NoCandidate, NoCandidate, NoCandidate >>]

(***************************************************************************)
(* enhanced_text_cleaning, on a text as a sequence of tokens: the blanks   *)
(* " ", "\n", "\t", "\r" and "\f" (any other character that \s and strip   *)
(* take for white space), the marks "!", "?" and ".", and runs of other    *)
(* characters.                                                             *)
(***************************************************************************)
\* a line of at most this many characters is dropped
ShortLineLen == 5

\* what \s matches and str.strip removes
IsSpace(tok) == tok \in {" ", "\n", "\t", "\r", "\f"}

Drop(text, n) == SubSeq(text, n + 1, Len(text))

Repeat(tok, n) == [i \in 1..n |-> tok]

\* the length of the run of tok the text starts with
RECURSIVE RunLen(_, _)
RunLen(text, tok) ==
  IF text # << >> /\ Head(text) = tok THEN 1 + RunLen(Tail(text), tok) ELSE 0

\* the length of the run of white space the text starts with
RECURSIVE SpaceRunLen(_)
SpaceRunLen(text) ==
  IF text # << >> /\ IsSpace(Head(text)) THEN 1 + SpaceRunLen(Tail(text)) ELSE 0

\* re.sub(r'\r\n|\r', '\n', text)
RECURSIVE NormalizeLineEndings(_)
NormalizeLineEndings(text) ==
  IF text = << >> THEN << >>
  ELSE IF Head(text) = "\r"
  THEN IF Len(text) > 1 /\ text[2] = "\n"
       THEN << "\n" >> \o NormalizeLineEndings(Drop(text, 2))
       ELSE << "\n" >> \o NormalizeLineEndings(Tail(text))
  ELSE << Head(text) >> \o NormalizeLineEndings(Tail(text))

\* re.sub(r'\t', ' ', text)
TabsToSpaces(text) == [i \in 1..Len(text) |-> IF text[i] = "\t" THEN " " ELSE text[i]]

\* re.sub(tok{least,}, keep times tok, text)
RECURSIVE CollapseRuns(_, _, _, _)
CollapseRuns(text, tok, least, keep) ==
  IF text = << >> THEN << >>
  ELSE IF Head(text) = tok
  THEN LET n == RunLen(text, tok)
       IN Repeat(tok, IF n >= least THEN keep ELSE n)
          \o CollapseRuns(Drop(text, n), tok, least, keep)
  ELSE << Head(text) >> \o CollapseRuns(Tail(text), tok, least, keep)

\* re.sub(r'\n\s*\n\s*\n+', '\n\n', text): a match starts at a newline and
\* ends at the last newline of the run of white space that starts there, if
\* the run holds three newlines or more
RECURSIVE CollapseNewlines(_)
CollapseNewlines(text) ==
  IF text = << >> THEN << >>
  ELSE IF Head(text) = "\n"
  THEN LET run == SpaceRunLen(text)
           newlines == { i \in 1..run : text[i] = "\n" }
           last == CHOOSE i \in newlines : \A j \in newlines : j <= i
       IN IF Cardinality(newlines) >= 3
          THEN << "\n", "\n" >> \o CollapseNewlines(Drop(text, last))
          ELSE << "\n" >> \o CollapseNewlines(Tail(text))
  ELSE << Head(text) >> \o CollapseNewlines(Tail(text))

\* re.sub(r' *\n *', '\n', text)
RECURSIVE TrimAroundNewlines(_)
TrimAroundNewlines(text) ==
  IF text = << >> THEN << >>
  ELSE LET before == RunLen(text, " ")
       IN IF before < Len(text) /\ text[before + 1] = "\n"
          THEN LET rest == Drop(text, before + 1)
               IN << "\n" >> \o TrimAroundNewlines(Drop(rest, RunLen(rest, " ")))
          ELSE << Head(text) >> \o TrimAroundNewlines(Tail(text))

\* text.split('\n')
RECURSIVE SplitLines(_)
SplitLines(text) ==
  IF \A i \in 1..Len(text) : text[i] # "\n" THEN << text >>
  ELSE LET at == CHOOSE i \in 1..Len(text) :
                   text[i] = "\n" /\ \A j \in 1..(i - 1) : text[j] # "\n"
       IN << SubSeq(text, 1, at - 1) >> \o SplitLines(Drop(text, at))

\* str.strip()
RECURSIVE StripLeft(_)
StripLeft(text) ==
  IF text # << >> /\ IsSpace(Head(text)) THEN StripLeft(Tail(text)) ELSE text

RECURSIVE StripRight(_)
StripRight(text) ==
  IF text # << >> /\ IsSpace(text[Len(text)])
  THEN StripRight(SubSeq(text, 1, Len(text) - 1)) ELSE text

Strip(text) == StripRight(StripLeft(text))

\* a filter that keeps the lines of 5 characters
RECURSIVE SubstantialLines_FromFive(_)
SubstantialLines_FromFive(lines) ==
  IF lines = << >> THEN << >>
  ELSE LET line == Strip(Head(lines))
       IN (IF TextLen(line) = 0 \/ TextLen(line) >= ShortLineLen THEN << line >> ELSE << >>)
          \o SubstantialLines_FromFive(Tail(lines))

\* "Remove very short lines": the stripped lines that are empty or longer
\* than 5 characters
RECURSIVE SubstantialLines(_)
SubstantialLines(lines) ==
  IF lines = << >> THEN << >>
  ELSE LET line == Strip(Head(lines))
       IN (IF TextLen(line) = 0 \/ TextLen(line) > ShortLineLen THEN << line >> ELSE << >>)
          \o SubstantialLines(Tail(lines))

\* "Remove excessive empty lines": at most one empty line in a row
RECURSIVE LimitEmptyLines(_, _)
LimitEmptyLines(lines, empty_count) ==
  IF lines = << >> THEN << >>
  ELSE IF TextLen(Head(lines)) = 0
  THEN (IF empty_count + 1 <= 1 THEN << Head(lines) >> ELSE << >>)
       \o LimitEmptyLines(Tail(lines), empty_count + 1)
  ELSE << Head(lines) >> \o LimitEmptyLines(Tail(lines), 0)

\* a cleaning that drops the short lines before it cuts the runs of marks
enhanced_text_cleaning_MarksLast(text) ==
  IF text = << >> THEN << >>
  ELSE LET t1 == CollapseRuns(TabsToSpaces(NormalizeLineEndings(text)), " ", 2, 1)
           t2 == TrimAroundNewlines(CollapseNewlines(t1))
           cleaned_lines == SubstantialLines(SplitLines(t2))
           result_lines == LimitEmptyLines(cleaned_lines, 0)
           t3 == Strip(Join(result_lines))
       IN CollapseRuns(CollapseRuns(CollapseRuns(t3, "!", 3, 3), "?", 3, 3), ".", 4, 3)

enhanced_text_cleaning(text) ==
  IF text = << >> THEN << >>
  ELSE LET t1 == CollapseRuns(TabsToSpaces(NormalizeLineEndings(text)), " ", 2, 1)
           t2 == TrimAroundNewlines(CollapseNewlines(t1))
           t3 == CollapseRuns(CollapseRuns(CollapseRuns(t2, "!", 3, 3), "?", 3, 3), ".", 4, 3)
           cleaned_lines == SubstantialLines(SplitLines(t3))
           result_lines == LimitEmptyLines(cleaned_lines, 0)
       IN Strip(Join(result_lines))

(***************************************************************************)
(* The document tree.  A soup is the nodes of the page in document order   *)
(* and the set of the nodes decomposed so far.  A node has its tag, one    *)
(* class, id and attribute (or none), its parent (0: the body), the text   *)
(* that is its own, the number of <p> and <h1..h6> children this text sits *)
(* in, the characters of it that sit in <a> children, and the length of    *)
(* its own markup.                                                         *)
(***************************************************************************)
Node(tag, class, id, attr, parent, text, paras, headers, link_len, markup) ==
  [tag |-> tag, class |-> class, id |-> id, attr |-> attr, parent |-> parent,
   text |-> text, paras |-> paras, headers |-> headers, link_len |-> link_len,
   markup |-> markup]

BeautifulSoup(nodes) == [nodes |-> nodes, gone |-> {}]

\* node i lies below node a
RECURSIVE IsUnder(_, _, _)
IsUnder(nodes, i, a) ==
  /\ nodes[i].parent # 0
  /\ \/ nodes[i].parent = a
     \/ IsUnder(nodes, nodes[i].parent, a)

\* the element i of the soup with what is left below it
Subtree(soup, i) ==
  { j \in 1..Len(soup.nodes) : (j = i \/ IsUnder(soup.nodes, j, i)) } \ soup.gone

\* element.decompose()
decompose(soup, i) ==
  [soup EXCEPT !.gone = @ \cup { j \in 1..Len(soup.nodes) :
                                   j = i \/ IsUnder(soup.nodes, j, i) }]

\* element.get_text(): the strings below the element, in document order
RECURSIVE TextFrom(_, _, _)
TextFrom(soup, set, j) ==
  IF j > Len(soup.nodes) THEN << >>
  ELSE (IF j \in set THEN soup.nodes[j].text ELSE << >>) \o TextFrom(soup, set, j + 1)

get_text(soup, i) == TextFrom(soup, Subtree(soup, i), 1)

\* the sum of a counter of the nodes over what is left below an element
RECURSIVE SumOver(_, _, _, _)
SumOver(soup, set, j, field) ==
  IF j = 0 THEN 0
  ELSE (IF j \in set THEN soup.nodes[j][field] ELSE 0) + SumOver(soup, set, j - 1, field)

\* len(element.find_all('p'))
ParagraphCount(soup, i) == SumOver(soup, Subtree(soup, i), Len(soup.nodes), "paras")

\* len(element.find_all(['h1', 'h2', 'h3', 'h4', 'h5', 'h6']))
HeaderCount(soup, i) == SumOver(soup, Subtree(soup, i), Len(soup.nodes), "headers")

\* sum(len(link.get_text()) for link in element.find_all('a'))
LinkTextLen(soup, i) == SumOver(soup, Subtree(soup, i), Len(soup.nodes), "link_len")

\* len(str(element)): the markup and the strings below the element
HtmlLen(soup, i) ==
  SumOver(soup, Subtree(soup, i), Len(soup.nodes), "markup") + TextLen(get_text(soup, i))

\* a CSS selector: tag, class, id and attribute of the element and tag and
\* attribute of an element above it, "" where the selector does not say
Selector(tag, class, id, attr, above_tag, above_attr) ==
  [tag |-> tag, class |-> class, id |-> id, attr |-> attr,
   above_tag |-> above_tag, above_attr |-> above_attr]

TagSelector(tag) == Selector(tag, "", "", "", "", "")

ClassSelector(class) == Selector("", class, "", "", "", "")

Matches(soup, i, sel) ==
  LET n == soup.nodes[i]
  IN /\ i \notin soup.gone
     /\ sel.tag = "" \/ n.tag = sel.tag
     /\ sel.class = "" \/ n.class = sel.class
     /\ sel.id = "" \/ n.id = sel.id
     /\ sel.attr = "" \/ n.attr = sel.attr
     /\ (sel.above_tag # "" \/ sel.above_attr # "") =>
          \E a \in 1..Len(soup.nodes) :
            /\ IsUnder(soup.nodes, i, a)
            /\ sel.above_tag = "" \/ soup.nodes[a].tag = sel.above_tag
            /\ sel.above_attr = "" \/ soup.nodes[a].attr = sel.above_attr

\* soup.select(selector)
select(soup, sel) == { i \in 1..Len(soup.nodes) : Matches(soup, i, sel) }

\* soup.find_all([tags])
find_all(soup, tags) ==
  { i \in 1..Len(soup.nodes) : i \notin soup.gone /\ soup.nodes[i].tag \in tags }

unwanted_selectors ==
  << TagSelector("script"), TagSelector("style"), TagSelector("nav"),
     TagSelector("header"), TagSelector("footer"), TagSelector("aside"),
     ClassSelector("advertisement"), ClassSelector("ad"), ClassSelector("sidebar"),
     ClassSelector("comments"), ClassSelector("social-share"),
     ClassSelector("related-articles"), Selector("", "", "comments", "", "", "") >>

\* for element in elements: element.decompose()
RECURSIVE DecomposeAll(_, _, _)
DecomposeAll(soup, elements, j) ==
  IF j > Len(soup.nodes) THEN soup
  ELSE DecomposeAll(IF j \in elements THEN decompose(soup, j) ELSE soup, elements, j + 1)

\* a removal by the tag selectors alone
RemoveUnwanted_TagsOnly(soup, k) ==
  DecomposeAll(soup, find_all(soup, {"script", "style", "nav", "header", "footer", "aside"}), 1)

\* scrape_article, "Remove unwanted elements"
RECURSIVE RemoveUnwanted(_, _)
RemoveUnwanted(soup, k) ==
  IF k > Len(unwanted_selectors) THEN soup
  ELSE RemoveUnwanted(DecomposeAll(soup, select(soup, unwanted_selectors[k]), 1), k + 1)

(***************************************************************************)
(* The four strategies on a document tree.  Scores are kept in hundredths  *)
(* of a point, so that the quotients of the length heuristic and of the    *)
(* readability score are whole numbers on the trees of TreePages.          *)
(***************************************************************************)
ScoreUnit == 100

Min(a, b) == IF a < b THEN a ELSE b

Max(a, b) == IF a > b THEN a ELSE b

\* len(text.split())
WordCount(text) ==
  Cardinality({ i \in 1..Len(text) :
                  ~IsSpace(text[i]) /\ (i = 1 \/ IsSpace(text[i - 1])) })

\* text.count('.') + text.count('!') + text.count('?')
SentenceCount(text) == Cardinality({ i \in 1..Len(text) : text[i] \in {".", "!", "?"} })

positive_indicators == {"content", "article", "post", "story", "main", "body"}

negative_indicators == {"nav", "menu", "sidebar", "footer", "header", "ad", "comment"}

\* the indicators that occur in a class or id
Indicators(name) ==
  CASE name = "article-content" -> {"content", "article"}
    [] name = "post-content" -> {"content", "post"}
    [] name = "entry-content" -> {"content"}
    [] name = "content" -> {"content"}
    [] name = "story-body" -> {"story", "body"}
    [] name = "main" -> {"main"}
    [] name = "ad" -> {"ad"}
    [] name = "advertisement" -> {"ad"}
    [] name = "sidebar" -> {"sidebar"}
    [] name = "comments" -> {"comment"}
    [] name = "related-articles" -> {"article"}
    [] name = "lead" -> {"ad"}
    [] name = "nav-menu" -> {"nav", "menu"}
    [] name = "page-header" -> {"header", "ad"}
    [] OTHER -> {}

\* a quality score that may fall below zero
score_content_quality_Signed(soup, i) ==
  LET element_attrs == Indicators(soup.nodes[i].class) \cup Indicators(soup.nodes[i].id)
  IN Min(ParagraphCount(soup, i) * 2, 20)
     + 5 * Cardinality(element_attrs \cap positive_indicators)
     - 10 * Cardinality(element_attrs \cap negative_indicators) - 30

\* _score_content_quality, in points
score_content_quality(soup, i) ==
  LET text_length == TextLen(get_text(soup, i))
      length_score == IF text_length > 2000 THEN 30
                      ELSE IF text_length > 1000 THEN 20
                      ELSE IF text_length > 500 THEN 10
                      ELSE 0
      element_attrs == Indicators(soup.nodes[i].class) \cup Indicators(soup.nodes[i].id)
      score == length_score
               + Min(ParagraphCount(soup, i) * 2, 20)
               + Min(HeaderCount(soup, i), 10)
               + 5 * Cardinality(element_attrs \cap positive_indicators)
               - 10 * Cardinality(element_attrs \cap negative_indicators)
  IN Max(score, 0)

NoElement == [element |-> 0, score |-> 0]

\* for element in elements: if total_score > best_score: ...
RECURSIVE ScanBest(_, _, _, _, _)
ScanBest(score, elements, j, n, best) ==
  IF j > n THEN best
  ELSE ScanBest(score, elements, j + 1, n,
                IF j \in elements /\ score[j] > best.score
                THEN [element |-> j, score |-> score[j]]
                ELSE best)

\* what a strategy returns for its best element
ElementCandidate(soup, best_element, score) ==
  IF best_element = 0 THEN NoCandidate
  ELSE Candidate(enhanced_text_cleaning(get_text(soup, best_element)), score,
                 soup.nodes[best_element].tag,
                 WordCount(get_text(soup, best_element)),
                 ParagraphCount(soup, best_element))

selectors ==
  << [selector |-> TagSelector("article"), base_score |-> 100],
     [selector |-> Selector("article", "", "", "", "main", ""), base_score |-> 95],
     [selector |-> Selector("article", "", "", "", "", "role=main"), base_score |-> 90],
     [selector |-> Selector("div", "article-content", "", "", "", ""), base_score |-> 85],
     [selector |-> Selector("div", "post-content", "", "", "", ""), base_score |-> 85],
     [selector |-> Selector("div", "entry-content", "", "", "", ""), base_score |-> 80],
     [selector |-> Selector("", "", "", "itemprop=articleBody", "", ""), base_score |-> 95],
     [selector |-> TagSelector("main"), base_score |-> 70],
     [selector |-> Selector("", "", "", "role=main", "", ""), base_score |-> 65] >>

\* for selector, base_score in selectors: for element in soup.select(selector)
RECURSIVE SemanticScan(_, _, _)
SemanticScan(soup, k, best) ==
  IF k > Len(selectors) THEN best
  ELSE SemanticScan(soup, k + 1,
         ScanBest([i \in 1..Len(soup.nodes) |->
                     (selectors[k].base_score + score_content_quality(soup, i)) * ScoreUnit],
                  select(soup, selectors[k].selector), 1, Len(soup.nodes), best))

SemanticOn(soup) ==
  LET best == SemanticScan(soup, 1, NoElement)
  IN ElementCandidate(soup, best.element, best.score)

\* the soup after the loop of the length heuristic: every nav, aside,
\* footer and header below a candidate has been decomposed
AfterLengthHeuristics(soup) ==
  LET candidates == find_all(soup, {"div", "section", "article", "main"})
  IN DecomposeAll(soup,
                  { u \in find_all(soup, {"nav", "aside", "footer", "header"}) :
                      \E c \in candidates : IsUnder(soup.nodes, u, c) }, 1)

\* length_score + para_score - link_penalty of an element, in hundredths
LengthScore(soup, i) ==
  LET len == TextLen(get_text(soup, i))
  IN Min(len, 50 * ScoreUnit)
     + Min(ParagraphCount(soup, i) * 2, 30) * ScoreUnit
     - (IF len > 0 THEN (LinkTextLen(soup, i) * 20 * ScoreUnit) \div len
        ELSE 20 * ScoreUnit)

LengthOn(soup) ==
  LET after == AfterLengthHeuristics(soup)
      best == ScanBest([i \in 1..Len(soup.nodes) |-> LengthScore(after, i)],
                       find_all(soup, {"div", "section", "article", "main"}),
                       1, Len(soup.nodes), NoElement)
  IN ElementCandidate(after, best.element, best.score)

\* a / b > c / d, for b > 0 and d > 0, by the quotients and,
\* where they are equal, by the remainders
RECURSIVE FracGreater(_, _, _, _)
FracGreater(a, b, c, d) ==
  IF a \div b # c \div d THEN a \div b > c \div d
  ELSE IF a % b = 0 THEN FALSE
  ELSE IF c % d = 0 THEN TRUE
  ELSE FracGreater(d, c % d, b, a % b)

\* the density of an element, with its bonuses, in hundredths: num / den
Density(soup, i) ==
  LET semantic == IF soup.nodes[i].tag \in {"article", "section"} THEN 12 ELSE 10
      related == IF Indicators(soup.nodes[i].class)
                      \cap {"content", "article", "post", "story"} # {}
                 THEN 11 ELSE 10
  IN [num |-> TextLen(get_text(soup, i)) * semantic * related,
      den |-> HtmlLen(soup, i)]

NoDensity == [element |-> 0, num |-> 0, den |-> 1]

\* a scan that accepts a text of 200 characters
RECURSIVE DensityScan_FromMin(_, _, _, _)
DensityScan_FromMin(soup, elements, j, best) ==
  IF j > Len(soup.nodes) THEN best
  ELSE LET d == Density(soup, j)
       IN DensityScan_FromMin(soup, elements, j + 1,
            IF /\ j \in elements
               /\ HtmlLen(soup, j) # 0
               /\ FracGreater(d.num, d.den, best.num, best.den)
               /\ TextLen(get_text(soup, j)) >= MinCandidateLen
            THEN [element |-> j, num |-> d.num, den |-> d.den]
            ELSE best)

\* if density > best_density and text_length > 200
RECURSIVE DensityScan(_, _, _, _)
DensityScan(soup, elements, j, best) ==
  IF j > Len(soup.nodes) THEN best
  ELSE LET d == Density(soup, j)
       IN DensityScan(soup, elements, j + 1,
            IF /\ j \in elements
               /\ HtmlLen(soup, j) # 0
               /\ FracGreater(d.num, d.den, best.num, best.den)
               /\ TextLen(get_text(soup, j)) > MinCandidateLen
            THEN [element |-> j, num |-> d.num, den |-> d.den]
            ELSE best)

\* score = int(best_density * 100)
DensityOn(soup) ==
  LET best == DensityScan(soup, find_all(soup, {"div", "section", "article"}), 1, NoDensity)
  IN ElementCandidate(soup, best.element, (best.num \div best.den) * ScoreUnit)

MinReadableLen == 100

\* sentence_score + para_score + header_score of an element, in hundredths;
\* 0 for an element the loop skips
Readability(soup, i) ==
  LET text == get_text(soup, i)
      sentences == SentenceCount(text)
      words == WordCount(text)
      avg == IF sentences = 0 THEN 0 ELSE (words * ScoreUnit) \div sentences
      off == IF avg > 1750 THEN avg - 1750 ELSE 1750 - avg
  IN IF TextLen(text) < MinReadableLen \/ sentences = 0 \/ words = 0 THEN 0
     ELSE Max(0, 20 * ScoreUnit - off)
          + Min(ParagraphCount(soup, i), 20) * ScoreUnit
          + Min(HeaderCount(soup, i) * 3, 15) * ScoreUnit

ReadabilityOn(soup) ==
  LET best == ScanBest([i \in 1..Len(soup.nodes) |-> Readability(soup, i)],
                       find_all(soup, {"div", "section", "article", "main"}),
                       1, Len(soup.nodes), NoElement)
  IN ElementCandidate(soup, best.element, (best.score \div ScoreUnit) * ScoreUnit)

(***************************************************************************)
(* The four strategies and the selection among them                        *)
(***************************************************************************)
\* a page comes with its tree or, the abstract pages, with what the
\* strategies return on it
HasTree(soup) == "tree" \in DOMAIN soup

extract_semantic_content(soup) ==
  IF HasTree(soup) THEN SemanticOn(soup.tree) ELSE soup.strategies[1]

extract_by_length_heuristics(soup) ==
  IF HasTree(soup) THEN LengthOn(soup.tree) ELSE soup.strategies[2]

extract_by_text_density(soup) ==
  IF HasTree(soup) THEN DensityOn(soup.tree) ELSE soup.strategies[3]

extract_readability_content(soup) ==
  IF HasTree(soup) THEN ReadabilityOn(soup.tree) ELSE soup.strategies[4]

\* the soup the third and the fourth strategy are called with: the second
\* has decomposed elements of it
AfterSecond(soup) ==
  IF HasTree(soup) THEN [soup EXCEPT !.tree = AfterLengthHeuristics(@)] ELSE soup

extraction_strategies(soup) ==
  << extract_semantic_content(soup),
     extract_by_length_heuristics(soup),
     extract_by_text_density(AfterSecond(soup)),
     extract_readability_content(AfterSecond(soup)) >>

EmptyMetadata == [element_type |-> "", word_count |-> 0, paragraph_count |-> 0,
                  nonempty |-> FALSE]

\* extract_element_metadata: the dict a strategy returns with its candidate
ElementMetadata(c) ==
  [element_type |-> c.element_type, word_count |-> c.word_count,
   paragraph_count |-> c.paragraph_count, nonempty |-> TRUE]

NoBest == [content |-> << >>, score |-> 0, metadata |-> EmptyMetadata]

\* a selection that accepts what the later length test accepts
SelectStep_ShortCandidate(best, c) ==
  IF c.raises THEN best
  ELSE IF c.score > best.score /\ TextLen(c.text) >= MinContentLen
       THEN [content |-> c.text, score |-> c.score, metadata |-> ElementMetadata(c)]
       ELSE best

\* one iteration of the loop of advanced_content_extraction
SelectStep(best, c) ==
  IF c.raises THEN best
  ELSE IF c.score > best.score /\ TextLen(c.text) > MinCandidateLen
       THEN [content |-> c.text, score |-> c.score, metadata |-> ElementMetadata(c)]
       ELSE best

RECURSIVE SelectFrom(_, _, _)
SelectFrom(cands, i, best) ==
  IF i > Len(cands) THEN best
  ELSE SelectFrom(cands, i + 1, SelectStep(best, cands[i]))

advanced_content_extraction(soup) ==
  SelectFrom(extraction_strategies(soup), 1, NoBest)

(***************************************************************************)
(* Result strings                                                          *)
(***************************************************************************)
InvalidURLMsg ==
  << "[cross]", "Invalid URL format",
     ". Please enter a valid URL starting with http:// or https://" >>

CachedMarker == << "[clipboard]", "[Cached]", " " >>

\* content_type.split('/')[0]
PrimaryType(ct) ==
  IF \E i \in 1..Len(ct) : ct[i] = "/"
  THEN LET k == CHOOSE i \in 1..Len(ct) :
                  ct[i] = "/" /\ \A j \in 1..(i - 1) : ct[j] # "/"
       IN SubSeq(ct, 1, k - 1)
  ELSE ct

ContentTypeMsg(ct) ==
  << "[cross]", "Invalid content type", ": " >> \o ct
    \o << ". This appears to be a " >> \o PrimaryType(ct)
    \o << " file, not a webpage." >>

InsufficientMsg ==
  << "[cross]", "Could not extract significant content",
     ". This page might use dynamic loading, be behind a paywall, or contain primarily multimedia content." >>

TimeoutMsg ==
  << "[alarm]", "Request timed out",
     ". The website is taking too long to respond." >>

ConnectionMsg ==
  << "[globe]", "Connection failed",
     ". Please check your internet connection or try again later." >>

AccessDeniedMsg ==
  << "[no-entry]", "Access denied",
     ". The website is blocking automated requests." >>

NotFoundMsg ==
  << "[magnifier]", "Page not found",
     ". Please verify the URL is correct." >>

RateLimitedMsg ==
  << "[stopwatch]", "Rate limited",
     ". The website is temporarily blocking requests. Try again later." >>

ServerErrorMsg(status) ==
  << "[wrench]", "Server error", " (", ToString(status),
     "). The website is experiencing technical difficulties." >>

HTTPErrorMsg(status) ==
  << "[page]", "HTTP error", " ", ToString(status),
     ". The website returned an error response." >>

UnexpectedMsg(text) == << "[warning]", "Unexpected error", ": ", text >>

\* metadata['publish_date'][:10]
FirstTen(date) ==
  CASE date = "2024-01-15T10:00:00Z" -> "2024-01-15"
    [] OTHER -> date

SeparatorRule == << "<U+2500 x 60>" >>

\* scrape_article, "Format final output"
HeaderParts(metadata) ==
  (IF metadata.title # "" THEN << << "[newspaper] **", metadata.title, "**\n" >> >> ELSE << >>)
  \o (IF metadata.author # "" THEN << << "[writing] Author: ", metadata.author >> >> ELSE << >>)
  \o (IF metadata.publish_date # ""
      THEN << << "[calendar] Published: ", FirstTen(metadata.publish_date) >> >> ELSE << >>)
  \o (IF metadata.description # ""
      THEN << << "[memo] Description: ", metadata.description >> >> ELSE << >>)

StatsParts(content_metadata) ==
  IF content_metadata.nonempty
  THEN << << "\n[chart] Extracted from ", content_metadata.element_type, " element" >>,
          << "[ruler] Content: ", ToString(content_metadata.word_count), " words, ",
             ToString(content_metadata.paragraph_count), " paragraphs" >> >>
  ELSE << >>

\* a formatting that puts the rule above the content of every result
FormatResult_RuleAlways(metadata, content, content_metadata) ==
  Join(HeaderParts(metadata) \o << SeparatorRule >> \o << content >>
       \o StatsParts(content_metadata))

FormatResult(metadata, content, content_metadata) ==
  LET header == HeaderParts(metadata)
      ruled == IF Len(header) > 0 THEN header \o << SeparatorRule >> ELSE header
  IN Join(ruled \o << content >> \o StatsParts(content_metadata))

(***************************************************************************)
(* Responses and exceptions of requests                                    *)
(***************************************************************************)
HtmlType == << "text", "/", "html" >>

ContentTypes ==
  { HtmlType,
    << "TEXT", "/", "HTML", ";", " charset=UTF-8" >>,
    << "application", "/", "pdf" >>,
    << >>,
    << "application", "/", "xhtml+xml", ";", " note=", "text", "/", "html" >> }

ErrorStatuses == {400, 403, 404, 429, 500, 503}

OkStatuses == {200}

\* every page as text/html, one page under each other content type, and
\* the error statuses
Responses ==
  { [status |-> s, content_type |-> HtmlType, page |-> p] :
      s \in OkStatuses, p \in Pages }
  \cup { [status |-> s, content_type |-> ct, page |-> PageArticle] :
      s \in OkStatuses, ct \in ContentTypes }
  \cup { [status |-> s, content_type |-> HtmlType, page |-> NoPage] : s \in ErrorStatuses }

NoResponse == [status |-> 0, content_type |-> << >>, page |-> NoPage]

\* the exceptions session.get raises, all of them RequestException
GetExceptions == {"ReadTimeout", "ConnectTimeout", "ConnectionError", "TooManyRedirects"}

Exc(cls, status, text) == [cls |-> cls, status |-> status, text |-> text]

NoExc == Exc("", 0, "")

\* what one GET attempt yields: a response or a raised exception
AttemptOutcomes ==
  { [response |-> r, exc |-> NoExc] : r \in Responses }
  \cup { [response |-> NoResponse, exc |-> Exc(c, 0, c)] : c \in GetExceptions }

\* the class hierarchy of requests.exceptions
IsTimeout(e) == e.cls \in {"ReadTimeout", "ConnectTimeout"}

IsConnectionError(e) == e.cls \in {"ConnectionError", "ConnectTimeout"}

IsHTTPError(e) == e.cls = "HTTPError"

IsRequestException(e) ==
  IsTimeout(e) \/ IsConnectionError(e) \/ IsHTTPError(e) \/ e.cls = "TooManyRedirects"

\* Response.raise_for_status
raise_for_status(r) ==
  IF ErrorStatusLow <= r.status /\ r.status < ErrorStatusHigh
  THEN Exc("HTTPError", r.status, "HTTPError")
  ELSE NoExc

\* scrape_article, HTTPError handler
\* a classification whose server-error range starts above 500
HTTPStatusMsg_Above500(status_code) ==
  IF status_code = StatusForbidden THEN AccessDeniedMsg
  ELSE IF status_code = StatusNotFound THEN NotFoundMsg
  ELSE IF status_code = StatusRateLimited THEN RateLimitedMsg
  ELSE IF status_code > ServerErrorLow THEN ServerErrorMsg(status_code)
  ELSE HTTPErrorMsg(status_code)

HTTPStatusMsg(status_code) ==
  IF status_code = StatusForbidden THEN AccessDeniedMsg
  ELSE IF status_code = StatusNotFound THEN NotFoundMsg
  ELSE IF status_code = StatusRateLimited THEN RateLimitedMsg
  ELSE IF status_code >= ServerErrorLow THEN ServerErrorMsg(status_code)
  ELSE HTTPErrorMsg(status_code)

\* handlers without the final except Exception clause
HandleException_NoCatchAll(e) ==
  IF IsTimeout(e) THEN TimeoutMsg
  ELSE IF IsConnectionError(e) THEN ConnectionMsg
  ELSE IF IsHTTPError(e) THEN HTTPStatusMsg(e.status)
  ELSE << >>

\* scrape_article, the except clauses of the outer try, in their order
HandleException(e) ==
  IF IsTimeout(e) THEN TimeoutMsg
  ELSE IF IsConnectionError(e) THEN ConnectionMsg
  ELSE IF IsHTTPError(e) THEN HTTPStatusMsg(e.status)
  ELSE UnexpectedMsg(e.text)

\* response.headers.get('content-type', '').lower()
LowerAll(ct) == [i \in 1..Len(ct) |-> Lower(ct[i])]

\* 'text/html' in content_type
HasTextHtml(ct) ==
  \E i \in 1..(Len(ct) - 2) : ct[i] = "text" /\ ct[i + 1] = "/" /\ ct[i + 2] = "html"

(***************************************************************************)
(* Structured data: the dict extract_structured_data builds, a function    *)
(* from field names to texts                                               *)
(***************************************************************************)
LdJson == "type=application/ld+json"

ArticleType == "itemtype=https://schema.org/Article"

PersonType == "itemtype=https://schema.org/Person"

EmptyDict == [k \in {} |-> << >>]

\* dict.update(other)
Update(dict, other) ==
  [k \in DOMAIN dict \cup DOMAIN other |->
     IF k \in DOMAIN other THEN other[k] ELSE dict[k]]

\* the script bodies of the pages of the model
JsonBodies ==
  { "{\"headline\": \"H\"}", "[{\"name\": \"N\"}]", "[]", "{headline" }

\* json.loads(script.string): a dict, a list of dicts, or an exception
json_loads(string) ==
  CASE string = << "{\"headline\": \"H\"}" >> ->
         [raises |-> FALSE, kind |-> "dict", items |-> << [headline |-> << "H" >>] >>]
    [] string = << "[{\"name\": \"N\"}]" >> ->
         [raises |-> FALSE, kind |-> "list", items |-> << [name |-> << "N" >>] >>]
    [] string = << "[]" >> ->
         [raises |-> FALSE, kind |-> "list", items |-> << >>]
    [] OTHER -> [raises |-> TRUE, kind |-> "", items |-> << >>]

\* for script in soup.find_all('script', type='application/ld+json'): ...
RECURSIVE JsonLdFrom(_, _, _)
JsonLdFrom(soup, j, structured_data) ==
  IF j > Len(soup.nodes) THEN structured_data
  ELSE IF Matches(soup, j, Selector("script", "", "", LdJson, "", ""))
       THEN LET data == json_loads(soup.nodes[j].text)
            IN JsonLdFrom(soup, j + 1,
                 IF data.raises THEN structured_data
                 ELSE IF data.kind = "dict" THEN Update(structured_data, data.items[1])
                 ELSE IF Len(data.items) > 0 THEN Update(structured_data, data.items[1])
                 ELSE structured_data)
       ELSE JsonLdFrom(soup, j + 1, structured_data)

\* prop.get('itemprop')
itemprop(attr) ==
  CASE attr = "itemprop=headline" -> "headline"
    [] attr = "itemprop=author" -> "author"
    [] OTHER -> ""

\* for prop in item.find_all(attrs={'itemprop': True}): ...
RECURSIVE PropsFrom(_, _, _, _)
PropsFrom(soup, item, j, structured_data) ==
  IF j > Len(soup.nodes) THEN structured_data
  ELSE LET prop_name == itemprop(soup.nodes[j].attr)
           prop_value == Strip(get_text(soup, j))
       IN PropsFrom(soup, item, j + 1,
            IF /\ j \notin soup.gone
               /\ IsUnder(soup.nodes, j, item)
               /\ prop_name # ""
               /\ prop_value # << >>
            THEN Update(structured_data, [k \in {prop_name} |-> prop_value])
            ELSE structured_data)

\* for item in soup.find_all(attrs={'itemtype': True}):
\*     if 'Article' in item_type: ...
RECURSIVE ItemsFrom(_, _, _)
ItemsFrom(soup, item, structured_data) ==
  IF item > Len(soup.nodes) THEN structured_data
  ELSE ItemsFrom(soup, item + 1,
         IF item \notin soup.gone /\ soup.nodes[item].attr = ArticleType
         THEN PropsFrom(soup, item, 1, structured_data)
         ELSE structured_data)

extract_structured_data(soup) == ItemsFrom(soup, 1, JsonLdFrom(soup, 1, EmptyDict))

\* extract_comprehensive_metadata: the meta fields and the structured data
\* found, or an exception
extract_comprehensive_metadata(soup) ==
  IF soup.meta_raises
  THEN [exc |-> Exc("Exception", 0, "metadata"), metadata |-> NoMeta]
  ELSE LET structured_data ==
             IF HasTree(soup) THEN extract_structured_data(soup.tree) ELSE EmptyDict
       IN [exc |-> NoExc,
           metadata |-> IF structured_data # EmptyDict
                        THEN soup.meta @@ [structured_data |-> structured_data]
                        ELSE soup.meta]

(***************************************************************************)
(* The cache: a dict, kept in insertion order                              *)
(***************************************************************************)
NoKey == md5(<< >>)

HasKey(cache, k) == \E i \in 1..Len(cache) : cache[i].key = k

IndexOf(cache, k) == CHOOSE i \in 1..Len(cache) : cache[i].key = k

\* a write that stamps every entry of the cache with its time
CachePut_Restamp(cache, k, time, content) ==
  [i \in 1..Len(cache) |-> [cache[i] EXCEPT !.time = time]]
    \o << [key |-> k, time |-> time, content |-> content] >>

\* self.extraction_cache[k] = (time, content): an existing key keeps its place
CachePut(cache, k, time, content) ==
  LET e == [key |-> k, time |-> time, content |-> content]
  IN IF HasKey(cache, k)
     THEN [cache EXCEPT ![IndexOf(cache, k)] = e]
     ELSE Append(cache, e)

\* del self.extraction_cache[k]
CacheDel(cache, k) ==
  LET n == IndexOf(cache, k)
  IN SubSeq(cache, 1, n - 1) \o SubSeq(cache, n + 1, Len(cache))

\* min(cache.keys(), key=lambda k: cache[k][0]): the first key, in iteration
\* order, of smallest time
\* an eviction that picks the entry of largest time
OldestKey_Newest(cache) ==
  LET n == CHOOSE i \in 1..Len(cache) :
             /\ \A j \in 1..Len(cache) : cache[i].time >= cache[j].time
             /\ \A j \in 1..(i - 1) : cache[j].time < cache[i].time
  IN cache[n].key

OldestKey(cache) ==
  LET n == CHOOSE i \in 1..Len(cache) :
             /\ \A j \in 1..Len(cache) : cache[i].time <= cache[j].time
             /\ \A j \in 1..(i - 1) : cache[j].time > cache[i].time
  IN cache[n].key

\* the time and content written by the n URLs scraped before the model starts
WarmTime(i) == StartTime - CacheLimit - 1 + i

WarmContent ==
  FormatResult(PageArticle.meta, << "text900" >>,
               ElementMetadata(extract_semantic_content(PageArticle)))

WarmCache(n) ==
  [i \in 1..n |-> [key |-> md5(WarmURL(i)), time |-> WarmTime(i), content |-> WarmContent]]

WarmSizes == {0, CacheLimit - 1, CacheLimit}

(***************************************************************************)
(* State                                                                   *)
(***************************************************************************)
VARIABLES
  extraction_cache,  \* self.extraction_cache, in insertion order
  now,               \* what time.time() returns
  frame,             \* per thread: the locals of its scrape_article call
  last_op,           \* the last operation completed on the scraper
  extracted          \* keys extracted successfully since the cache was empty

vars == << extraction_cache, now, frame, last_op, extracted >>

Threads == {"T1", "T2"}

\* the thread of the sequential specification
MainThread == "T1"

NoOp == [kind |-> "none", url |-> << >>, time |-> 0, content |-> << >>]

InitFrame ==
  [pc |-> "idle", url |-> << >>, attempt |-> 0, response |-> NoResponse,
   soup |-> NoPage, metadata |-> NoMeta, content |-> << >>,
   content_metadata |-> EmptyMetadata, final_content |-> << >>,
   oldest_key |-> NoKey, result |-> << >>, raised |-> "", cause |-> NoExc,
   outcome |-> "", retried |-> << >>,
   gets |-> 0, sleeps |-> << >>, delays |-> 0, cache_reads |-> 0,
   cache_writes |-> 0, lookup_time |-> 0, write_time |-> 0, prev_op |-> NoOp,
   last_attempt |-> NoExc]

InCall(f) == f.pc \notin {"idle", "returned", "raised"}

\* return <string>: the call ends; its locals are dropped
Return(f, string, outcome) ==
  [f EXCEPT !.pc = "returned", !.result = string, !.outcome = outcome,
            !.attempt = 0, !.response = NoResponse, !.soup = NoPage,
            !.metadata = NoMeta, !.content_metadata = EmptyMetadata,
            !.final_content = << >>, !.oldest_key = NoKey, !.retried = << >>]

\* an exception raised inside the outer try: the matching handler returns
Caught(f, e) ==
  [Return(f, HandleException(e),
          IF IsTimeout(e) THEN "TransportTimeout"
          ELSE IF IsConnectionError(e) THEN "ConnectionFailure"
          ELSE IF IsHTTPError(e) THEN "HTTPStatusError"
          ELSE "UnexpectedError")
     EXCEPT !.cause = e]

\* an exception raised outside the outer try leaves scrape_article
Escaped(f, cls) ==
  [Return(f, << >>, "Exception") EXCEPT !.pc = "raised", !.raised = cls]

\* what the completed call leaves as the scraper's last operation
OpOf(f) ==
  IF f.pc = "returned" /\ f.outcome = "Success"
  THEN [kind |-> "fresh", url |-> f.url, time |-> f.write_time, content |-> f.result]
  ELSE [kind |-> "other", url |-> << >>, time |-> 0, content |-> << >>]

Init ==
  /\ extraction_cache \in {WarmCache(n) : n \in WarmSizes}
  /\ now = StartTime
  /\ frame = [t \in Threads |-> InitFrame]
  /\ last_op = NoOp
  /\ extracted = {extraction_cache[i].key : i \in 1..Len(extraction_cache)}

\* a step of thread t that ends its call or not, and leaves the cache alone
LocalStep(t, f) ==
  /\ frame' = [frame EXCEPT ![t] = f]
  /\ last_op' = IF InCall(f) THEN last_op ELSE OpOf(f)
  /\ extracted' = IF f.pc = "returned" /\ f.outcome = "Success"
                  THEN extracted \cup {md5(f.url)} ELSE extracted
  /\ UNCHANGED now

(***************************************************************************)
(* scrape_article, step by step                                            *)
(***************************************************************************)
\* the caller invokes scrape_article(u)
Call(t, u) ==
  /\ ~InCall(frame[t])
  /\ frame' = [frame EXCEPT ![t] =
                 [InitFrame EXCEPT !.pc = "validate", !.url = u, !.prev_op = last_op]]
  /\ UNCHANGED << extraction_cache, now, last_op, extracted >>

\* a call that goes on to the cache whatever the URL
AfterValidate_Skipped(f) == [f EXCEPT !.pc = "cache_check"]

\* if not self.is_valid_url(url): return ...
AfterValidate(f) ==
  IF is_valid_url(f.url)
  THEN [f EXCEPT !.pc = "cache_check"]
  ELSE Return(f, InvalidURLMsg, "InvalidURL")

Validate(t) ==
  /\ frame[t].pc = "validate"
  /\ LocalStep(t, AfterValidate(frame[t]))
  /\ UNCHANGED extraction_cache

\* if url_hash in self.extraction_cache:
AfterCacheCheck(f, cache) ==
  [f EXCEPT !.pc = IF HasKey(cache, md5(f.url)) THEN "cache_get" ELSE "headers",
            !.cache_reads = @ + 1]

CacheCheck(t) ==
  /\ frame[t].pc = "cache_check"
  /\ LocalStep(t, AfterCacheCheck(frame[t], extraction_cache))
  /\ UNCHANGED extraction_cache

\* a lookup that still serves an entry of age 3600
AfterCacheGet_Inclusive(f, cache, time) ==
  IF ~HasKey(cache, md5(f.url))
  THEN Escaped(f, "KeyError")
  ELSE LET e == cache[IndexOf(cache, md5(f.url))]
           g == [f EXCEPT !.cache_reads = @ + 1, !.lookup_time = time]
       IN IF time - e.time <= CacheTTL
          THEN Return(g, CachedMarker \o e.content, "Cached")
          ELSE [g EXCEPT !.pc = "headers"]

\* cached_time, cached_content = self.extraction_cache[url_hash]
\* if time.time() - cached_time < 3600: return cached
AfterCacheGet(f, cache, time) ==
  IF ~HasKey(cache, md5(f.url))
  THEN Escaped(f, "KeyError")
  ELSE LET e == cache[IndexOf(cache, md5(f.url))]
           g == [f EXCEPT !.cache_reads = @ + 1, !.lookup_time = time]
       IN IF time - e.time < CacheTTL
          THEN Return(g, CachedMarker \o e.content, "Cached")
          ELSE [g EXCEPT !.pc = "headers"]

\* a lookup that throws away the entry it finds expired
CacheGet_DropsExpired(t) ==
  /\ frame[t].pc = "cache_get"
  /\ LocalStep(t, AfterCacheGet(frame[t], extraction_cache, now))
  /\ extraction_cache' =
       IF AfterCacheGet(frame[t], extraction_cache, now).pc = "headers"
       THEN CacheDel(extraction_cache, md5(frame[t].url))
       ELSE extraction_cache

CacheGet(t) ==
  /\ frame[t].pc = "cache_get"
  /\ LocalStep(t, AfterCacheGet(frame[t], extraction_cache, now))
  /\ UNCHANGED extraction_cache

\* headers = self.get_random_headers(): sleeps random.uniform(0.5, 2.0)
AfterHeaders(f) == [f EXCEPT !.pc = "get", !.delays = @ + 1, !.attempt = 0]

Headers(t) ==
  /\ frame[t].pc = "headers"
  /\ LocalStep(t, AfterHeaders(frame[t]))
  /\ UNCHANGED extraction_cache

\* 2 ** attempt
Pow2(n) == IF n = 0 THEN 1 ELSE IF n = 1 THEN 2 ELSE 4

\* a loop that sleeps after its last failed attempt too
AfterAttempt_SleepsLast(f, o) ==
  LET e == IF o.exc # NoExc THEN o.exc ELSE raise_for_status(o.response)
      g == [f EXCEPT !.gets = @ + 1]
  IN IF e = NoExc
     THEN [g EXCEPT !.pc = "content_type", !.response = o.response,
                    !.retried = << >>]
     ELSE IF ~IsRequestException(e)
     THEN Caught(g, e)
     ELSE IF f.attempt = max_retries - 1
     THEN Caught([g EXCEPT !.sleeps = Append(@, Pow2(f.attempt))], e)
     ELSE [g EXCEPT !.sleeps = Append(@, Pow2(f.attempt)), !.attempt = @ + 1,
                    !.retried = Append(@, e.cls)]

\* a loop that, out of attempts, raises the failure of its first attempt
AfterAttempt_FirstFailure(f, o) ==
  LET e == IF o.exc # NoExc THEN o.exc ELSE raise_for_status(o.response)
      g == [f EXCEPT !.gets = @ + 1]
  IN IF e = NoExc
     THEN [g EXCEPT !.pc = "content_type", !.response = o.response,
                    !.retried = << >>]
     ELSE IF ~IsRequestException(e)
     THEN Caught(g, e)
     ELSE IF f.attempt = max_retries - 1
     THEN Caught(g, Exc(f.retried[1], e.status, f.retried[1]))
     ELSE [g EXCEPT !.sleeps = Append(@, Pow2(f.attempt)), !.attempt = @ + 1,
                    !.retried = Append(@, e.cls)]

\* one iteration of "for attempt in range(max_retries)"
AfterAttempt(f, o) ==
  LET e == IF o.exc # NoExc THEN o.exc ELSE raise_for_status(o.response)
      g == [f EXCEPT !.gets = @ + 1]
  IN IF e = NoExc
     THEN [g EXCEPT !.pc = "content_type", !.response = o.response,
                    !.retried = << >>]
     ELSE IF ~IsRequestException(e)
     THEN Caught(g, e)
     ELSE IF f.attempt = max_retries - 1
     THEN Caught(g, e)
     ELSE [g EXCEPT !.sleeps = Append(@, Pow2(f.attempt)), !.attempt = @ + 1,
                    !.retried = Append(@, e.cls)]

\* what the attempt ended with: the exception of the GET or of
\* raise_for_status, NoExc for a response that passes
Failure(o) == IF o.exc # NoExc THEN o.exc ELSE raise_for_status(o.response)

\* the GET of an attempt; last_attempt records how the attempt ended
Get(t, outcomes) ==
  /\ frame[t].pc = "get"
  /\ \E o \in outcomes :
       LocalStep(t, [AfterAttempt(frame[t], o) EXCEPT !.last_attempt = Failure(o)])
  /\ UNCHANGED extraction_cache

\* if 'text/html' not in content_type: return ...
AfterContentType(f) ==
  LET content_type == LowerAll(f.response.content_type)
  IN IF ~HasTextHtml(content_type)
     THEN Return(f, ContentTypeMsg(content_type), "UnsupportedContentType")
     ELSE [f EXCEPT !.pc = "parse"]

ContentType(t) ==
  /\ frame[t].pc = "content_type"
  /\ LocalStep(t, AfterContentType(frame[t]))
  /\ UNCHANGED extraction_cache

\* for selector in unwanted_selectors: ...; an abstract page stands for
\* its sanitized tree already
remove_unwanted(soup) ==
  IF HasTree(soup) THEN [soup EXCEPT !.tree = RemoveUnwanted(@, 1)] ELSE soup

\* soup = BeautifulSoup(...); remove unwanted elements;
\* metadata = self.extract_comprehensive_metadata(soup)
AfterParse(f) ==
  LET soup == remove_unwanted(f.response.page)
      m == extract_comprehensive_metadata(soup)
  IN IF m.exc # NoExc
     THEN Caught(f, m.exc)
     ELSE [f EXCEPT !.pc = "extract", !.soup = soup, !.metadata = m.metadata,
                    !.response = NoResponse]

Parse(t) ==
  /\ frame[t].pc = "parse"
  /\ LocalStep(t, AfterParse(frame[t]))
  /\ UNCHANGED extraction_cache

\* content, content_metadata = self.advanced_content_extraction(soup)
\* if len(content) < 150: return ...
AfterExtract(f) ==
  LET best == advanced_content_extraction(f.soup)
      g == [f EXCEPT !.content = best.content, !.content_metadata = best.metadata]
  IN IF TextLen(best.content) < MinContentLen
     THEN Return(g, InsufficientMsg, "InsufficientContent")
     ELSE [g EXCEPT !.pc = "format"]

Extract(t) ==
  /\ frame[t].pc = "extract"
  /\ LocalStep(t, AfterExtract(frame[t]))
  /\ UNCHANGED extraction_cache

\* final_content = '\n'.join(result_parts)
AfterFormat(f) ==
  [f EXCEPT !.pc = "cache_write",
            !.final_content = FormatResult(f.metadata, f.content, f.content_metadata)]

Format(t) ==
  /\ frame[t].pc = "format"
  /\ LocalStep(t, AfterFormat(frame[t]))
  /\ UNCHANGED extraction_cache

\* self.extraction_cache[url_hash] = (time.time(), final_content)
CacheWrite(t) ==
  /\ frame[t].pc = "cache_write"
  /\ extraction_cache' =
       CachePut(extraction_cache, md5(frame[t].url), now, frame[t].final_content)
  /\ LocalStep(t, [frame[t] EXCEPT !.pc = "cache_limit", !.cache_writes = @ + 1,
                                   !.write_time = now])

\* a limit test that lets one entry more stay
AfterLimitCheck_OneMore(f, cache) ==
  IF Len(cache) > CacheLimit + 1
  THEN [f EXCEPT !.pc = "evict_min"]
  ELSE Return(f, f.final_content, "Success")

\* if len(self.extraction_cache) > 50:
AfterLimitCheck(f, cache) ==
  IF Len(cache) > CacheLimit
  THEN [f EXCEPT !.pc = "evict_min"]
  ELSE Return(f, f.final_content, "Success")

LimitCheck(t) ==
  /\ frame[t].pc = "cache_limit"
  /\ LocalStep(t, AfterLimitCheck(frame[t], extraction_cache))
  /\ UNCHANGED extraction_cache

\* oldest_key = min(self.extraction_cache.keys(), key=...)
AfterEvictMin(f, cache) ==
  IF Len(cache) = 0
  THEN Caught(f, Exc("ValueError", 0, "min() arg is an empty sequence"))
  ELSE [f EXCEPT !.pc = "evict_del", !.oldest_key = OldestKey(cache)]

EvictMin(t) ==
  /\ frame[t].pc = "evict_min"
  /\ LocalStep(t, AfterEvictMin(frame[t], extraction_cache))
  /\ UNCHANGED extraction_cache

\* del self.extraction_cache[oldest_key]; return final_content
EvictDel(t) ==
  /\ frame[t].pc = "evict_del"
  /\ IF HasKey(extraction_cache, frame[t].oldest_key)
     THEN /\ extraction_cache' = CacheDel(extraction_cache, frame[t].oldest_key)
          /\ LocalStep(t, Return(frame[t], frame[t].final_content, "Success"))
     ELSE /\ UNCHANGED extraction_cache
          /\ LocalStep(t, Caught(frame[t], Exc("KeyError", 0, "KeyError")))

\* clear_cache
ClearCache(t) ==
  /\ ~InCall(frame[t])
  /\ extraction_cache' = << >>
  /\ last_op' = [NoOp EXCEPT !.kind = "clear"]
  /\ extracted' = {}
  /\ UNCHANGED << now, frame >>

\* the clock values of the model: around the construction of the scraper and
\* around the expiry of what is cached then
Instants ==
  { StartTime, StartTime + 1, StartTime + CacheTTL - 1, StartTime + CacheTTL }
  \cup { StartTime + CacheTTL + k : k \in 1..LateInstants }

\* time passes
Tick ==
  /\ \E later \in Instants : later > now /\ now' = later
  /\ UNCHANGED << extraction_cache, frame, last_op, extracted >>

\* the steps of scrape_article
ScrapeStep(t, urls, outcomes) ==
  \/ \E u \in urls : Call(t, u)
  \/ Validate(t)
  \/ CacheCheck(t)
  \/ CacheGet(t)
  \/ Headers(t)
  \/ Get(t, outcomes)
  \/ ContentType(t)
  \/ Parse(t)
  \/ Extract(t)
  \/ Format(t)
  \/ CacheWrite(t)
  \/ LimitCheck(t)
  \/ EvictMin(t)
  \/ EvictDel(t)

\* what a caller does with the scraper
Step(t, urls, outcomes) ==
  \/ ScrapeStep(t, urls, outcomes)
  \/ ClearCache(t)

\* one caller: the calls on the scraper follow one another
Next == Step(MainThread, URLs, AttemptOutcomes) \/ Tick

Spec == Init /\ [][Next]_vars

\* several callers run scrape_article on the shared scraper, within one clock
\* value: the cache is full, every GET returns the article page or times out
ConcOutcomes ==
  { [response |-> [status |-> 200, content_type |-> HtmlType, page |-> PageArticle],
     exc |-> NoExc],
    [response |-> NoResponse, exc |-> Exc("ReadTimeout", 0, "ReadTimeout")] }

InitConc == Init /\ Len(extraction_cache) = CacheLimit

NextConc == \E t \in Threads : ScrapeStep(t, ValidURLs, ConcOutcomes)

ConcSpec == InitConc /\ [][NextConc]_vars

\* the longest text cleaned, in tokens
MaxTextTokens == 5

CleanTokens == {" ", "\n", "\t", "\r", "\f", "!", "?", ".", "w2", "w6"}

RawTexts == UNION { [1..n -> CleanTokens] : n \in 0..MaxTextTokens }

\* the locals of a caller that cleans a text, and cleans the result again
CleanFrame(text) == [pc |-> "raw", raw |-> text, text |-> text, once |-> << >>, passes |-> 0]

InitClean ==
  /\ extraction_cache = << >>
  /\ now = StartTime
  /\ last_op = NoOp
  /\ extracted = {}
  /\ \E text \in RawTexts : frame = [t \in Threads |-> CleanFrame(text)]

\* text = self.enhanced_text_cleaning(text)
CleanText(t) ==
  /\ frame[t].passes < 2
  /\ frame' = [frame EXCEPT ![t] =
                 [@ EXCEPT !.pc = "cleaned",
                           !.text = enhanced_text_cleaning(@),
                           !.once = IF frame[t].passes = 0
                                    THEN enhanced_text_cleaning(frame[t].text) ELSE @,
                           !.passes = @ + 1]]
  /\ UNCHANGED << extraction_cache, now, last_op, extracted >>

NextClean == CleanText(MainThread)

CleanSpec == InitClean /\ [][NextClean]_vars

(***************************************************************************)
(* Extraction alone: one call, on an empty cache, whose first GET has      *)
(* brought a page; the pages are all the combinations of what the four     *)
(* strategies can return.                                                  *)
(***************************************************************************)
\* what strategy i returns: it raises, it finds no element, or it returns
\* a text with a score (the word count tells the strategies apart)
StrategyOutcomes(i) ==
  { Raises, NoCandidate }
  \cup { Candidate(<< text >>, score, "div", 10 * i, 1) :
            text \in {"text200", "text201", "text900"}, score \in {0, 50, 100} }

OutcomePages ==
  { [id |-> "outcomes", meta_raises |-> FALSE, meta |-> NoMeta,
     strategies |-> << c1, c2, c3, c4 >>] :
      c1 \in StrategyOutcomes(1), c2 \in StrategyOutcomes(2),
      c3 \in StrategyOutcomes(3), c4 \in StrategyOutcomes(4) }

\* the element that leads the page
LeadElements ==
  { [tag |-> tag, class |-> class, text |-> text, paras |-> paras] :
      tag \in {"article", "main", "div"},
      class \in {"", "lead", "article-content"},
      text \in { << "\n", "text201", "\n" >>,
                 << "\n", "text900", ".", "\n" >>,
                 << "\n", "text5000", ".", " ", "text120", "!", "\n" >> },
      paras \in {0, 3} }

\* an element that one of the unwanted selectors matches
UnwantedElements ==
  { [tag |-> tag, class |-> "", id |-> ""] :
      tag \in {"script", "style", "nav", "header", "footer", "aside"} }
  \cup { [tag |-> "div", class |-> class, id |-> ""] :
           class \in {"advertisement", "ad", "sidebar", "comments", "social-share",
                      "related-articles"} }
  \cup { [tag |-> "div", class |-> "", id |-> "comments"] }

\* a block beside the lead element
OtherElements ==
  { [text |-> text, paras |-> paras, linked |-> linked] :
      text \in { << "\n", "text120", "\n" >>, << "\n", "text5000", ".", "\n" >> },
      paras \in {0, 15},
      linked \in BOOLEAN }

\* the lead element, an unwanted element below or beside it, a div
TreeOf(lead, unwanted, below, other, markup) ==
  BeautifulSoup(
    << Node(lead.tag, lead.class, "", "", 0, lead.text, lead.paras,
            IF lead.paras > 0 THEN 1 ELSE 0, 0, markup),
       Node(unwanted.tag, unwanted.class, unwanted.id, "", IF below THEN 1 ELSE 0,
            << "menu16", "\n" >>, 0, 0, 16, markup),
       Node("div", "", "", "", 0, other.text, other.paras, 0,
            IF other.linked THEN TextLen(other.text) ELSE 0, markup) >>)

TreePages ==
  { [id |-> "tree", meta_raises |-> FALSE, meta |-> NoMeta,
     tree |-> TreeOf(lead, unwanted, below, other, markup)] :
      lead \in LeadElements, unwanted \in UnwantedElements, below \in BOOLEAN,
      other \in OtherElements, markup \in {30, 1000} }

\* an article with a JSON-LD script below or beside it and a span below it
JsonLdTree(body, below, item_type, item_prop) ==
  BeautifulSoup(
    << Node("article", "", "", item_type, 0, << "\n", "text900", ".", "\n" >>, 3, 1, 0, 30),
       Node("script", "", "", LdJson, IF below THEN 1 ELSE 0, << body >>, 0, 0, 0, 30),
       Node("span", "", "", item_prop, 1, << "w6", "\n" >>, 0, 0, 0, 30) >>)

JsonLdPages ==
  { [id |-> "tree", meta_raises |-> FALSE, meta |-> NoMeta,
     tree |-> JsonLdTree(body, below, item_type, item_prop)] :
      body \in JsonBodies, below \in BOOLEAN,
      item_type \in {"", ArticleType, PersonType},
      item_prop \in {"", "itemprop=headline"} }

\* pages with each choice of meta fields, on which the semantic strategy
\* alone finds the article
MetaPages ==
  { [id |-> "meta", meta_raises |-> FALSE,
     meta |-> [title |-> title, author |-> author, publish_date |-> publish_date,
               description |-> description],
     strategies |-> << Candidate(<< "text900" >>, 130, "article", 150, 10),
                       NoCandidate, NoCandidate, NoCandidate >>] :
      title \in {"", "Title A"}, author \in {"", "Ann"},
      publish_date \in {"", "2024-01-15T10:00:00Z"},
      description \in {"", "About A"} }

ExtractPages == OutcomePages \cup TreePages \cup JsonLdPages \cup MetaPages

\* the locals of a call for u whose first GET returned r
FetchedFrame(u, r) ==
  [InitFrame EXCEPT !.pc = "content_type", !.url = u, !.response = r,
                    !.gets = 1, !.delays = 1, !.cache_reads = 1]

InitExtract ==
  /\ extraction_cache = << >>
  /\ now = StartTime
  /\ last_op = NoOp
  /\ extracted = {}
  /\ \E page \in ExtractPages :
       frame = [t \in Threads |->
                  IF t = MainThread
                  THEN FetchedFrame(WarmURL(1),
                         [status |-> 200, content_type |-> HtmlType, page |-> page])
                  ELSE InitFrame]

NextExtract ==
  \/ ContentType(MainThread)
  \/ Parse(MainThread)
  \/ Extract(MainThread)
  \/ Format(MainThread)
  \/ CacheWrite(MainThread)
  \/ LimitCheck(MainThread)

ExtractSpec == InitExtract /\ [][NextExtract]_vars

(***************************************************************************)
(* The strategies alone: a caller runs the four strategies on one soup,    *)
(* in an order of its choice, as advanced_content_extraction runs them in  *)
(* the order of its list.  The soup is a parsed page, sanitized or not.    *)
(***************************************************************************)
StrategyTrees ==
  { TreeOf(lead, unwanted, below, other, 30) :
      lead \in { l \in LeadElements : l.class = "" /\ l.paras = 3 },
      unwanted \in { u \in UnwantedElements : u.tag \in {"nav", "aside", "script"} },
      below \in BOOLEAN,
      other \in { o \in OtherElements : o.paras = 15 } }

\* strategy(soup), by the place of the strategy in extraction_strategies
Strategy(i, soup) ==
  CASE i = 1 -> SemanticOn(soup)
    [] i = 2 -> LengthOn(soup)
    [] i = 3 -> DensityOn(soup)
    [] i = 4 -> ReadabilityOn(soup)

\* a div and an article whose texts have the lengths around the minimum
\* lengths of the strategies; the div ends with a full stop or a blank
ThresholdTrees ==
  { BeautifulSoup(
      << Node("div", "", "", "", 0, << a, end >>, 0, 0, 0, 30),
         Node("article", "", "", "", 0, << b, "." >>, 0, 0, 0, 30) >>) :
      a \in {"text98", "text99", "text198", "text199", "text200"},
      end \in {".", " "},
      b \in {"text98", "text99", "text198", "text199", "text200"} }

\* the soup once the strategy has returned
SoupAfter(i, soup) == IF i = 2 THEN AfterLengthHeuristics(soup) ELSE soup

\* the locals of the caller: the soup as parsed, the soup as it is, the
\* strategies run so far and what each returned
StrategyFrame(soup) ==
  [pc |-> "strategies", parsed |-> soup, soup |-> soup, ran |-> << >>,
   returned |-> [i \in 1..4 |-> NoCandidate]]

InitStrategies ==
  /\ extraction_cache = << >>
  /\ now = StartTime
  /\ last_op = NoOp
  /\ extracted = {}
  /\ \E soup \in StrategyTrees \cup ThresholdTrees :
       frame = [t \in Threads |-> StrategyFrame(soup)]

\* content, metadata, score = strategy(soup)
RunStrategy(t, i) ==
  /\ \A k \in 1..Len(frame[t].ran) : frame[t].ran[k] # i
  /\ frame' = [frame EXCEPT ![t] =
                 [@ EXCEPT !.ran = Append(@, i),
                           !.returned[i] = Strategy(i, frame[t].soup),
                           !.soup = SoupAfter(i, frame[t].soup)]]
  /\ UNCHANGED << extraction_cache, now, last_op, extracted >>

NextStrategies == \E i \in 1..4 : RunStrategy(MainThread, i)

StrategySpec == InitStrategies /\ [][NextStrategies]_vars

(***************************************************************************)
(* The scraper dialog of src/ui.py.  The dialog and the scrape_article     *)
(* call it makes run in the GUI thread: the frame of MainThread holds the  *)
(* locals of the call, the second frame holds the fields of the dialog.    *)
(***************************************************************************)
Dialog == "T2"

\* the scrapes started from one dialog
MaxScrapes == 2

\* what the user types into url_edit
DialogURLs ==
  { WarmURL(1),
    <<"https", ":", "//", "host", "/", "a">>,
    <<"ftp", ":", "//", "host">> }

\* what the GETs of a scrape started from the dialog yield
DialogOutcomes ==
  { [response |-> [status |-> 200, content_type |-> HtmlType, page |-> page], exc |-> NoExc] :
      page \in {PageArticle, PagePlain, PageThin} }
  \cup { [response |-> [status |-> 200, content_type |-> << "application", "/", "pdf" >>,
                        page |-> PageArticle], exc |-> NoExc],
         [response |-> [status |-> 404, content_type |-> HtmlType, page |-> NoPage],
          exc |-> NoExc],
         [response |-> NoResponse, exc |-> Exc("ReadTimeout", 0, "ReadTimeout")] }

\* WebScraperDialog.__init__: the fields of the dialog
InitDialog ==
  [pc |-> "ready", url_edit |-> << >>, article_edit |-> << >>, scrapes |-> 0,
   classifier |-> "", forwarded |-> << >>]

InitUI ==
  /\ extraction_cache = << >>
  /\ now = StartTime
  /\ last_op = NoOp
  /\ extracted = {}
  /\ frame = [t \in Threads |-> IF t = Dialog THEN InitDialog ELSE InitFrame]

\* str.startswith, for a word the texts of the model hold as one piece
startswith(text, word) == text # << >> /\ text[1] = word

\* WebScraperDialog.scrape_article and the first statements of
\* perform_scraping: scraper = WebScraper(); scraper.scrape_article(url)
perform_scraping(u) ==
  /\ frame[Dialog].pc = "ready"
  /\ frame[Dialog].scrapes < MaxScrapes
  /\ extraction_cache' = << >>
  /\ extracted' = {}
  /\ frame' = [frame EXCEPT
                 ![MainThread] = [InitFrame EXCEPT !.pc = "validate", !.url = u,
                                                   !.prev_op = last_op],
                 ![Dialog] = [@ EXCEPT !.pc = "scraping", !.url_edit = u,
                                       !.scrapes = @ + 1]]
  /\ UNCHANGED << now, last_op >>

\* self.article_edit.setText(article_text)
setText ==
  /\ frame[Dialog].pc = "scraping"
  /\ frame[MainThread].pc = "returned"
  /\ frame' = [frame EXCEPT ![Dialog] =
                 [@ EXCEPT !.pc = "ready", !.article_edit = frame[MainThread].result]]
  /\ UNCHANGED << extraction_cache, now, last_op, extracted >>

\* if article_text and not article_text.startswith("Error")
\*    and not article_text.startswith("Invalid")
CanForward(article_text) ==
  /\ article_text # << >>
  /\ ~startswith(article_text, "Error")
  /\ ~startswith(article_text, "Invalid")

\* self.accept(); self.parent().process_..._from_scraper(article_text)
Forwarded(dialog, classifier) ==
  [dialog EXCEPT !.pc = "closed", !.classifier = classifier,
                 !.forwarded = dialog.article_edit]

analyze_sentiment ==
  /\ frame[Dialog].pc = "ready"
  /\ CanForward(frame[Dialog].article_edit)
  /\ frame' = [frame EXCEPT ![Dialog] = Forwarded(@, "sentiment")]
  /\ UNCHANGED << extraction_cache, now, last_op, extracted >>

analyze_spam ==
  /\ frame[Dialog].pc = "ready"
  /\ CanForward(frame[Dialog].article_edit)
  /\ frame' = [frame EXCEPT ![Dialog] = Forwarded(@, "spam")]
  /\ UNCHANGED << extraction_cache, now, last_op, extracted >>

NextUI ==
  \/ \E u \in DialogURLs : perform_scraping(u)
  \/ Validate(MainThread)
  \/ CacheCheck(MainThread)
  \/ Headers(MainThread)
  \/ Get(MainThread, DialogOutcomes)
  \/ ContentType(MainThread)
  \/ Parse(MainThread)
  \/ Extract(MainThread)
  \/ Format(MainThread)
  \/ CacheWrite(MainThread)
  \/ LimitCheck(MainThread)
  \/ setText
  \/ analyze_sentiment
  \/ analyze_spam
  \/ Tick

UISpec == InitUI /\ [][NextUI]_vars

(***************************************************************************)
(* Spam detection: SpamDetector.detect of src/spam_detector.py and         *)
(* MainWindow.process_spam of src/ui.py.  A text is a sequence of pieces   *)
(* put together with single blanks; scores are kept in thousandths.  The   *)
(* frame of MainThread holds the fields of the main window, the second     *)
(* frame the fields of the detector.                                       *)
(***************************************************************************)
Detector == "T2"

\* the pieces of the texts: "essay600" stands for 100 different words of
\* lower-case letters, 600 characters with their blanks
SpamVocabulary ==
  { "ok", "hello", "offer", "lottery", "urgent", "suspended", "click here",
    "WINNER", "!!!!", "$$$", "essay600" }

\* the texts of one or two pieces that make at most two chunks
SpamTexts ==
  { text \in UNION { [1..n -> SpamVocabulary] : n \in 1..2 } :
      text # << "essay600", "essay600" >> }

\* len(piece)
PieceLen(piece) ==
  CASE piece = "ok" -> 2
    [] piece = "hello" -> 5
    [] piece = "offer" -> 5
    [] piece = "lottery" -> 7
    [] piece = "urgent" -> 6
    [] piece = "suspended" -> 9
    [] piece = "click here" -> 10
    [] piece = "WINNER" -> 6
    [] piece = "!!!!" -> 4
    [] piece = "$$$" -> 3
    [] piece = "essay600" -> 600

\* len(piece.split())
PieceWords(piece) ==
  CASE piece = "click here" -> 2
    [] piece = "essay600" -> 100
    [] OTHER -> 1

\* the sum of f over the pieces of the text
RECURSIVE SumPieces(_, _)
SumPieces(text, count) ==
  IF text = << >> THEN 0 ELSE count[Head(text)] + SumPieces(Tail(text), count)

\* len(text)
SpamTextLen(text) ==
  SumPieces(text, [piece \in SpamVocabulary |-> PieceLen(piece)]) + Len(text) - 1

\* sum(1 for c in text if c.isupper())
CapsCount(text) ==
  SumPieces(text, [piece \in SpamVocabulary |-> IF piece = "WINNER" THEN 6 ELSE 0])

\* sum(1 for c in text if c in '!?$')
PunctCount(text) ==
  SumPieces(text, [piece \in SpamVocabulary |->
                     IF piece \in {"!!!!", "$$$"} THEN PieceLen(piece) ELSE 0])

\* advanced_rule_detection: the score of each rule that fires, with its reason
RuleHits(text) ==
  LET pieces == { text[i] : i \in 1..Len(text) }
      exclamations == SumPieces(text, [piece \in SpamVocabulary |->
                                         IF piece = "!!!!" THEN 4 ELSE 0])
      dollars == SumPieces(text, [piece \in SpamVocabulary |->
                                    IF piece = "$$$" THEN 3 ELSE 0])
  IN (IF pieces \cap {"lottery", "WINNER"} # {}
      THEN << [score |-> 250, reason |-> "Lottery/inheritance scam indicators"] >>
      ELSE << >>)
     \o (IF "urgent" \in pieces
         THEN << [score |-> 100, reason |-> "Urgency indicators detected (1 found)"] >>
         ELSE << >>)
     \o (IF "click here" \in pieces
         THEN << [score |-> 200, reason |-> "Suspicious click prompts"] >> ELSE << >>)
     \o (IF "suspended" \in pieces
         THEN << [score |-> 200, reason |-> "Account threat language"] >> ELSE << >>)
     \o (IF exclamations > 3
         THEN << [score |-> 100, reason |-> "Excessive exclamation marks"] >> ELSE << >>)
     \o (IF dollars > 2
         THEN << [score |-> 150, reason |-> "Multiple dollar signs"] >> ELSE << >>)
     \o (IF 10 * CapsCount(text) > 3 * SpamTextLen(text)
         THEN << [score |-> 200, reason |-> "Excessive capital letters"] >> ELSE << >>)

RECURSIVE SumScores(_)
SumScores(hits) == IF hits = << >> THEN 0 ELSE Head(hits).score + SumScores(Tail(hits))

\* return is_spam, confidence, reasons
advanced_rule_detection(text) ==
  LET hits == RuleHits(text)
      total_score == SumScores(hits)
  IN << total_score > 400, Min(total_score, 1000),
        [k \in 1..Len(hits) |-> hits[k].reason] >>

\* what self.classifier(chunk)[0] is: a label with a score, or an exception
ClassifierResults ==
  { [raises |-> FALSE, label |-> label, score |-> score] :
      label \in {"INJECTION", "phishing", "HATE", "LEGIT"}, score \in {500, 900} }
  \cup { [raises |-> TRUE, label |-> "", score |-> 0] }

\* _interpret_ml_result
interpret_ml_result(model_type, result) ==
  CASE model_type = "injection" ->
         IF result.label = "INJECTION" THEN result.score ELSE 1000 - result.score
    [] model_type = "phishing" ->
         IF result.label = "phishing" THEN result.score ELSE 1000 - result.score
    [] model_type = "hate" ->
         IF result.label = "HATE" THEN (result.score * 7) \div 10
         ELSE ((1000 - result.score) * 3) \div 10
    [] OTHER ->
         IF result.label \in {"HATE"} THEN result.score ELSE 1000 - result.score

\* the chunks of 512 characters _ml_detection classifies, at most 2 for the
\* texts of the model
Chunks(text) == IF SpamTextLen(text) > 512 THEN (SpamTextLen(text) + 511) \div 512 ELSE 1

\* _ml_detection: is_spam, score, or (False, 0.0) when the classifier raises
ml_detection(model_type, text, results) ==
  LET n == Chunks(text)
      scores == [k \in 1..n |-> interpret_ml_result(model_type, results[k])]
      total == SumScores([k \in 1..n |-> [score |-> scores[k]]])
      score == total \div n
  IN IF \E k \in 1..n : results[k].raises THEN << FALSE, 0 >>
     ELSE << score > 600, score >>

\* _analyze_characters
analyze_characters(text) ==
  Min((IF 100 * PunctCount(text) > 5 * SpamTextLen(text) THEN 300 ELSE 0)
      + (IF 10 * CapsCount(text) > 3 * SpamTextLen(text) THEN 400 ELSE 0), 1000)

\* _analyze_words
analyze_words(text) ==
  LET pieces == { text[i] : i \in 1..Len(text) }
      words == SumPieces(text, [piece \in SpamVocabulary |-> PieceWords(piece)])
      letters == SpamTextLen(text) - (words - 1)
      high_spam_count == Cardinality(pieces \cap {"urgent", "WINNER", "lottery", "click here"})
      medium_spam_count == Cardinality(pieces \cap {"offer"})
  IN Min(Min(high_spam_count * 100 + medium_spam_count * 50, 600)
         + (IF letters < 3 * words \/ letters > 12 * words THEN 150 ELSE 0), 1000)

\* re.split(r'[.!?]+', text): the number of words of each sentence
RECURSIVE Sentences(_, _)
Sentences(text, words) ==
  IF text = << >> THEN << words >>
  ELSE IF Head(text) = "!!!!"
  THEN << words >> \o Sentences(Tail(text), 0)
  ELSE Sentences(Tail(text), words + PieceWords(Head(text)))

\* _analyze_structure: the texts hold no line break, URL, address or number
analyze_structure(text) ==
  LET sentences == Sentences(text, 0)
      short_sentences == { k \in 1..Len(sentences) : sentences[k] < 4 }
  IN IF 2 * Cardinality(short_sentences) > Len(sentences) THEN 300 ELSE 0

\* _linguistic_analysis
linguistic_analysis(text) ==
  LET score == (analyze_characters(text) * 3 + analyze_words(text) * 4
                + analyze_structure(text) * 3) \div 10
  IN << score > 500, Min(score, 1000) >>

\* _combine_results
combine_results(rule_spam, rule_conf, ml_spam, ml_conf, ling_spam, ling_conf) ==
  LET combined_confidence == (rule_conf * 4 + ml_conf * 4 + ling_conf * 2) \div 10
  IN IF \/ rule_spam /\ rule_conf > 800
        \/ ml_spam /\ ml_conf > 800
        \/ ling_spam /\ ling_conf > 800
     THEN << TRUE, combined_confidence >>
     ELSE << combined_confidence > 500, combined_confidence >>

\* SpamDetector.detect: what it returns
detect(detector, text, results) ==
  LET rule == advanced_rule_detection(text)
  IN IF ~detector.model_loaded THEN rule
     ELSE LET ml == ml_detection(detector.model_type, text, results)
              linguistic == linguistic_analysis(text)
              final == combine_results(rule[1], rule[2], ml[1], ml[2],
                                       linguistic[1], linguistic[2])
          IN << final[1], final[2],
                rule[3]
                \o (IF ml[1]
                    THEN << "ML Model detected suspicious patterns (" \o detector.model_type
                            \o ")" >>
                    ELSE << >>)
                \o (IF linguistic[1]
                    THEN << "Linguistic analysis flagged suspicious patterns" >>
                    ELSE << >>) >>

\* SpamDetector.__init__: a model of one of the three types is loaded, or none
Detectors ==
  { [model_loaded |-> TRUE, model_type |-> type] : type \in {"injection", "phishing", "hate"} }
  \cup { [model_loaded |-> FALSE, model_type |-> ""] }

NoWindow == [title |-> "", text |-> << >>, result |-> "", confidence |-> 0]

\* the fields of the main window that spam detection touches
InitWindow ==
  [pc |-> "idle", text |-> << >>, processing |-> FALSE, status_label |-> "",
   spam_preview |-> NoWindow, result_window |-> NoWindow, critical |-> ""]

InitSpam ==
  /\ extraction_cache = << >>
  /\ now = StartTime
  /\ last_op = NoOp
  /\ extracted = {}
  /\ \E detector \in Detectors :
       frame = [t \in Threads |-> IF t = Detector THEN detector ELSE InitWindow]

\* run_spam_detection: the text of the input dialog, if it is not empty
run_spam_detection(text) ==
  /\ frame[MainThread].pc = "idle"
  /\ text # << >>
  /\ frame' = [frame EXCEPT ![MainThread] =
                 [@ EXCEPT !.pc = "scheduled", !.text = text, !.processing = TRUE,
                           !.status_label = "Detecting spam..."]]
  /\ UNCHANGED << extraction_cache, now, last_op, extracted >>

\* text[:200]
Preview(text) == IF SpamTextLen(text) <= 200 THEN text ELSE << "essay600[:200]" >>

\* is_spam, confidence = self.spam_detector.detect(text); show the result;
\* except Exception: the critical box; finally: hide_processing, status
AfterProcessSpam(window, returned) ==
  LET done == [window EXCEPT !.pc = "processed", !.processing = FALSE,
                             !.status_label = "Detection complete"]
  IN IF Len(returned) # 2
     THEN [done EXCEPT !.critical =
             IF Len(returned) > 2
             THEN "Detection failed: too many values to unpack (expected 2)"
             ELSE "Detection failed: not enough values to unpack"]
     ELSE LET result == IF returned[1] THEN "SPAM" ELSE "Not Spam"
          IN [done EXCEPT
                !.spam_preview = [title |-> "Text Preview", text |-> Preview(window.text),
                                  result |-> result, confidence |-> returned[2]],
                !.result_window = [title |-> "Spam Detection Result", text |-> window.text,
                                   result |-> result, confidence |-> returned[2]]]

\* the timer fires: process_spam(text, dialog)
process_spam(results) ==
  /\ frame[MainThread].pc = "scheduled"
  /\ frame' = [frame EXCEPT ![MainThread] =
                 AfterProcessSpam(@, detect(frame[Detector], frame[MainThread].text, results))]
  /\ UNCHANGED << extraction_cache, now, last_op, extracted >>

NextSpam ==
  \/ \E text \in SpamTexts : run_spam_detection(text)
  \/ \E results \in [1..2 -> ClassifierResults] : process_spam(results)

SpamSpec == InitSpam /\ [][NextSpam]_vars

(***************************************************************************)
(* Sentiment analysis (src/sentiment_analyzer.py).  A label is the         *)
(* sequence of its characters, so that "in" is the substring test the code *)
(* performs; scores are in thousandths, formatted scores in hundredths.    *)
(***************************************************************************)
Alphabet ==
  << "a", "b", "c", "d", "e", "f", "g", "h", "i", "j", "k", "l", "m", "n", "o", "p", "q", "r", "s", "t", "u", "v", "w", "x", "y", "z" >>

Capitals ==
  << "A", "B", "C", "D", "E", "F", "G", "H", "I", "J", "K", "L", "M", "N", "O", "P", "Q", "R", "S", "T", "U", "V", "W", "X", "Y", "Z" >>

\* str.lower, one character
lower_char(c) ==
  IF \E i \in 1..Len(Capitals) : Capitals[i] = c
  THEN Alphabet[CHOOSE i \in 1..Len(Capitals) : Capitals[i] = c]
  ELSE c

\* str.upper, one character
upper_char(c) ==
  IF \E i \in 1..Len(Alphabet) : Alphabet[i] = c
  THEN Capitals[CHOOSE i \in 1..Len(Alphabet) : Alphabet[i] = c]
  ELSE c

\* str.lower
lower(s) == [i \in 1..Len(s) |-> lower_char(s[i])]

\* str.title of a word of letters: the first in upper case, the rest in lower
title(s) == [i \in 1..Len(s) |-> IF i = 1 THEN upper_char(s[i]) ELSE lower_char(s[i])]

\* part in s
In(part, s) ==
  \E i \in 0..(Len(s) - Len(part)) : SubSeq(s, i + 1, i + Len(part)) = part

\* f"{score:.2f}" of a score that is no tie between two hundredths
Format2f(score) == (score + 5) \div 10

positive_emotions ==
  << << "j", "o", "y" >>,
     << "h", "a", "p", "p", "i", "n", "e", "s", "s" >>,
     << "l", "o", "v", "e" >>,
     << "e", "x", "c", "i", "t", "e", "m", "e", "n", "t" >>,
     << "g", "r", "a", "t", "i", "t", "u", "d", "e" >>,
     << "a", "d", "m", "i", "r", "a", "t", "i", "o", "n" >>,
     << "a", "m", "u", "s", "e", "m", "e", "n", "t" >>,
     << "a", "p", "p", "r", "o", "v", "a", "l" >>,
     << "c", "a", "r", "i", "n", "g" >>,
     << "d", "e", "s", "i", "r", "e" >>,
     << "o", "p", "t", "i", "m", "i", "s", "m" >>,
     << "p", "r", "i", "d", "e" >>,
     << "r", "e", "l", "i", "e", "f" >> >>

negative_emotions ==
  << << "a", "n", "g", "e", "r" >>,
     << "s", "a", "d", "n", "e", "s", "s" >>,
     << "f", "e", "a", "r" >>,
     << "d", "i", "s", "g", "u", "s", "t" >>,
     << "a", "n", "n", "o", "y", "a", "n", "c", "e" >>,
     << "d", "i", "s", "a", "p", "p", "o", "i", "n", "t", "m", "e", "n", "t" >>,
     << "d", "i", "s", "a", "p", "p", "r", "o", "v", "a", "l" >>,
     << "e", "m", "b", "a", "r", "r", "a", "s", "s", "m", "e", "n", "t" >>,
     << "g", "r", "i", "e", "f" >>,
     << "n", "e", "r", "v", "o", "u", "s", "n", "e", "s", "s" >>,
     << "r", "e", "m", "o", "r", "s", "e" >>,
     << "c", "o", "n", "f", "u", "s", "i", "o", "n" >> >>

neutral_emotions ==
  << << "n", "e", "u", "t", "r", "a", "l" >>,
     << "s", "u", "r", "p", "r", "i", "s", "e" >>,
     << "c", "u", "r", "i", "o", "s", "i", "t", "y" >>,
     << "r", "e", "a", "l", "i", "z", "a", "t", "i", "o", "n" >> >>

\* any(e in emotion for e in emotions)
AnyIn(emotions, emotion) == \E i \in 1..Len(emotions) : In(emotions[i], emotion)

\* _emotion_to_sentiment: Positive, Negative or Neutral with the emoji, the
\* label in title case and the confidence with two decimals
emotion_to_sentiment(emotion, confidence) ==
  LET e == lower(emotion)
  IN IF AnyIn(positive_emotions, e)
     THEN [sentiment |-> "Positive",
           emoji |-> IF e = << "j", "o", "y" >> THEN "U+1F60A"
                     ELSE IF e = << "l", "o", "v", "e" >> THEN "U+2764 U+FE0F" ELSE "U+1F604",
           emotion |-> title(e), confidence |-> Format2f(confidence)]
     ELSE IF AnyIn(negative_emotions, e)
     THEN [sentiment |-> "Negative",
           emoji |-> IF e = << "s", "a", "d", "n", "e", "s", "s" >> THEN "U+1F622"
                     ELSE IF e = << "a", "n", "g", "e", "r" >> THEN "U+1F620" ELSE "U+1F61F",
           emotion |-> title(e), confidence |-> Format2f(confidence)]
     ELSE [sentiment |-> "Neutral", emoji |-> "U+1F610",
           emotion |-> title(e), confidence |-> Format2f(confidence)]

\* _interpret_single_result: by model type
interpret_single_result(model_type, result) ==
  LET label == lower(result.label)
      score == result.score
  IN IF model_type \in {"emotion", "go_emotions"}
     THEN emotion_to_sentiment(label, score)
     ELSE IF In(<< "p", "o", "s" >>, label) /\ score > 500
     THEN [sentiment |-> "Positive", emoji |-> "U+1F60A", emotion |-> << >>,
           confidence |-> Format2f(score)]
     ELSE IF In(<< "n", "e", "g" >>, label) /\ score > 500
     THEN [sentiment |-> "Negative", emoji |-> "U+1F614", emotion |-> << >>,
           confidence |-> Format2f(score)]
     ELSE [sentiment |-> "Neutral", emoji |-> "U+1F610", emotion |-> << >>,
           confidence |-> Format2f(score)]

\* the labels a classifier emits: the labels of the three lists, and labels of
\* other spellings
ClassifierLabels ==
  { positive_emotions[i] : i \in 1..Len(positive_emotions) }
  \cup { negative_emotions[i] : i \in 1..Len(negative_emotions) }
  \cup { neutral_emotions[i] : i \in 1..Len(neutral_emotions) }
  \cup { << "J", "o", "y" >>,
         << "D", "I", "S", "A", "P", "P", "R", "O", "V", "A", "L" >>,
         << "P", "O", "S", "I", "T", "I", "V", "E" >>,
         << "N", "E", "G", "A", "T", "I", "V", "E" >>,
         << "t", "r", "u", "s", "t" >> }

ClassifierScores == {500, 934, 996}

SentimentResults == [label : ClassifierLabels, score : ClassifierScores]

NoSentiment == [sentiment |-> "", emoji |-> "", emotion |-> << >>, confidence |-> 0]

\* load_model: the type of the model that was loaded
InitSentiment ==
  /\ extraction_cache = << >>
  /\ now = StartTime
  /\ last_op = NoOp
  /\ extracted = {}
  /\ \E model_type \in {"emotion", "go_emotions", "standard"} :
       frame = [t \in Threads |->
                  [pc |-> "idle", model_type |-> model_type,
                   result |-> [label |-> << >>, score |-> 0], returned |-> NoSentiment]]

\* analyze of a text of at most 512 characters: the classifier's result,
\* interpreted
analyze(result) ==
  /\ frame' = [frame EXCEPT ![MainThread] =
                 [@ EXCEPT !.pc = "returned", !.result = result,
                           !.returned = interpret_single_result(frame[MainThread].model_type, result)]]
  /\ UNCHANGED << extraction_cache, now, last_op, extracted >>

NextSentiment == \E result \in SentimentResults : analyze(result)

SentimentSpec == InitSentiment /\ [][NextSentiment]_vars

(***************************************************************************)
(* Properties                                                              *)
(***************************************************************************)
Main == frame[MainThread]

Range(s) == {s[i] : i \in 1..Len(s)}

\* part occurs in string as a run of consecutive pieces
Contains(string, part) ==
  \E i \in 0..(Len(string) - Len(part)) : SubSeq(string, i + 1, i + Len(part)) = part

StartsWith(string, head) ==
  Len(string) >= Len(head) /\ SubSeq(string, 1, Len(head)) = head

\* the phrase that identifies each failure message
FailureMarkers ==
  [InvalidURL |-> "Invalid URL format",
   UnsupportedContentType |-> "Invalid content type",
   InsufficientContent |-> "Could not extract significant content",
   TransportTimeout |-> "Request timed out",
   ConnectionFailure |-> "Connection failed",
   UnexpectedError |-> "Unexpected error"]

HTTPMarkers == {"Access denied", "Page not found", "Rate limited", "Server error", "HTTP error"}

\* the result categories a returned string belongs to, read off the string
StringCategories(string) ==
  LET failures == { c \in DOMAIN FailureMarkers :
                      Len(string) >= 2 /\ string[2] = FailureMarkers[c] }
      http == IF Len(string) >= 2 /\ string[2] \in HTTPMarkers
              THEN {"HTTPStatusError"} ELSE {}
      cached == IF StartsWith(string, CachedMarker) THEN {"Cached"} ELSE {}
      failed == failures \cup http \cup cached
  IN IF failed = {} /\ string # << >> THEN {"Success"} ELSE failed

\* C1: scrape_article never lets an exception escape and never hangs: a
\* running call can always take its next step, issues at most max_retries
\* GETs, and what it returns is a non-empty string of exactly one result
\* category, the one of the path the call took.
C1_AlwaysReturnsOneCategory ==
  /\ Main.pc # "raised"
  /\ Main.gets <= max_retries
  /\ InCall(Main) => ENABLED Step(MainThread, URLs, AttemptOutcomes)
  /\ Main.pc = "returned" =>
       /\ Main.result # << >>
       /\ StringCategories(Main.result) = {Main.outcome}

\* a call whose metadata extraction raised has returned the unexpected-error string
C1_Witness ==
  /\ Main.pc = "returned"
  /\ Main.outcome = "UnexpectedError"
  /\ Main.cause.text = "metadata"
  /\ Main.gets = max_retries

\* C2: a call for a URL that fails validation returns the InvalidURL message
\* and has issued no GET, slept no delay or backoff, and neither read nor
\* written the cache.
C2_InvalidURLFailsFast ==
  (Main.pc # "idle" /\ ~is_valid_url(Main.url)) =>
    /\ Main.pc \in {"validate", "returned"}
    /\ Main.pc = "returned" => Main.result = InvalidURLMsg
    /\ Main.gets = 0
    /\ Main.delays = 0
    /\ Main.sleeps = << >>
    /\ Main.cache_reads = 0
    /\ Main.cache_writes = 0

\* the call for http://host/?u=data:x has returned InvalidURL
C2_Witness ==
  /\ Main.pc = "returned"
  /\ Main.url = <<"http", ":", "//", "host", "/", "?", "u", "=", "data", ":", "x">>
  /\ Main.result = InvalidURLMsg

\* C3: an attempt that receives an HTTP error status is not retried: no call
\* is still in its retry loop, a backoff slept, after an HTTPError.
C3_NoRetryAfterHTTPStatus ==
  \A i \in 1..Len(Main.retried) : Main.retried[i] # "HTTPError"

\* the backoff sleeps 2^0, 2^1 that go before the n-th GET
BackoffBefore(n) == SubSeq(<< 1, 2 >>, 1, n - 1)

\* C4: a call issues at most 3 GETs; the (k+1)-th follows k failed attempts
\* and the backoff sleeps 2^0 .. 2^(k-1), and no other sleep; the loop is left
\* with a response or with the failure of the third attempt.
C4_BoundedRetryWithBackoff ==
  /\ Main.gets <= max_retries
  /\ Main.pc = "get" =>
       /\ Main.gets = Main.attempt
       /\ Main.attempt < max_retries
       /\ Len(Main.retried) = Main.attempt
       /\ Main.sleeps = BackoffBefore(Main.attempt + 1)
  /\ (Main.gets > 0 /\ Main.pc # "get") => Main.sleeps = BackoffBefore(Main.gets)
  /\ Main.gets = 0 => Main.sleeps = << >>
  /\ Main.pc = "content_type" => Main.response \in Responses
  /\ (Main.pc = "returned" /\ Main.cause # NoExc /\ IsRequestException(Main.cause)) =>
       Main.gets = max_retries

\* two failed attempts, two sleeps, and the third GET brought the response
C4_Witness ==
  /\ Main.pc = "content_type"
  /\ Main.gets = max_retries
  /\ Main.sleeps = << 1, 2 >>

\* the message the taxonomy gives the failure of the last attempt
TaxonomyMarker(e) ==
  IF e.cls \in {"ReadTimeout", "ConnectTimeout"} THEN "Request timed out"
  ELSE IF e.cls = "ConnectionError" THEN "Connection failed"
  ELSE IF e.cls # "HTTPError" THEN "Unexpected error"
  ELSE CASE e.status = 403 -> "Access denied"
         [] e.status = 404 -> "Page not found"
         [] e.status = 429 -> "Rate limited"
         [] e.status >= 500 -> "Server error"
         [] OTHER -> "HTTP error"

AllMarkers == HTTPMarkers \cup {FailureMarkers[c] : c \in DOMAIN FailureMarkers}

\* C5: the message returned for a failed fetch carries the marker of the
\* category of the last attempt's failure (403, 404, 429, >= 500, other
\* status, timeout, connection failure) and no other category's marker.
C5_ClassificationTotalExclusive ==
  (Main.pc = "returned" /\ Main.cause # NoExc) =>
    Range(Main.result) \cap AllMarkers = {TaxonomyMarker(Main.cause)}

\* a third attempt answered 500 has been reported as a server error
C5_Witness ==
  /\ Main.pc = "returned"
  /\ Main.cause.cls = "HTTPError"
  /\ Main.cause.status = 500
  /\ "Server error" \in Range(Main.result)

\* C6: the call that follows a successful extraction of the same URL, cached
\* at time t, returns the cached marker and that result, without GET or delay,
\* when its lookup is at a time less than 3600 after t, and fetches afresh
\* otherwise.
C6_CachedWithinTTL ==
  (Main.pc = "returned" /\ Main.prev_op.kind = "fresh" /\ Main.prev_op.url = Main.url) =>
    IF Main.lookup_time - Main.prev_op.time < 3600
    THEN /\ Main.result = CachedMarker \o Main.prev_op.content
         /\ Main.gets = 0
         /\ Main.delays = 0
         /\ Main.sleeps = << >>
    ELSE /\ Main.outcome # "Cached"
         /\ Main.delays = 1
         /\ Main.gets >= 1

\* a hit at age 3599
C6_Witness ==
  /\ Main.pc = "returned"
  /\ Main.prev_op.kind = "fresh"
  /\ Main.prev_op.url = Main.url
  /\ Main.lookup_time - Main.prev_op.time = 3599
  /\ Main.outcome = "Cached"

\* C7: between calls the cache holds at most 50 entries, and exactly 50 once
\* 51 distinct URLs have been extracted successfully.
C7_CacheAtMostLimit ==
  ~InCall(Main) =>
    /\ Len(extraction_cache) <= 50
    /\ Cardinality(extracted) >= 51 => Len(extraction_cache) = 50

\* the 51st distinct URL has been extracted
C7_Witness ==
  /\ Main.pc = "returned"
  /\ Main.outcome = "Success"
  /\ Cardinality(extracted) = 51
  /\ Len(extraction_cache) = 50

\* C8 as stated: the eviction goes before the insert, so the cache never
\* holds 51 entries.
C8_NeverAboveLimit == Len(extraction_cache) <= 50

\* C8, amended: the cache holds 51 entries only between the insert and the
\* eviction of one call, and never more; a step that removes an entry while
\* a call runs removes exactly one, of smallest time among the 51, and not
\* the one the call wrote.
C8_EvictOldestAfterInsert ==
  /\ [](/\ Len(extraction_cache) <= 51
        /\ Len(extraction_cache) = 51 =>
             /\ Main.pc \in {"cache_limit", "evict_min", "evict_del"}
             /\ HasKey(extraction_cache, md5(Main.url)))
  /\ [][ (InCall(Main) /\ extraction_cache' # extraction_cache
            /\ Len(extraction_cache') <= Len(extraction_cache)
            /\ Main.pc # "cache_write") =>
           /\ Len(extraction_cache) = 51
           /\ \E i \in 1..51 :
                /\ extraction_cache' =
                     SubSeq(extraction_cache, 1, i - 1) \o SubSeq(extraction_cache, i + 1, 51)
                /\ \A j \in 1..51 : extraction_cache[i].time <= extraction_cache[j].time
                /\ extraction_cache[i].key # md5(Main.url)
           /\ HasKey(extraction_cache', md5(Main.url)) ]_vars

\* the insert has taken the cache to 51 entries and the eviction is pending
C8_Witness ==
  /\ Main.pc = "evict_del"
  /\ Len(extraction_cache) = 51
  /\ Main.oldest_key # md5(Main.url)

\* C9: concurrent calls behave as if their cache steps were serialized: no
\* call raises or returns an unexpected error because another call removed
\* a key, and with every call returned the cache holds at most 50 entries.
C9_CacheStepsSerialized ==
  /\ \A t \in Threads :
       /\ frame[t].pc # "raised"
       /\ frame[t].cause.cls \notin {"KeyError", "ValueError"}
  /\ (\A t \in Threads : ~InCall(frame[t])) => Len(extraction_cache) <= 50

\* C10: once the extraction step has passed, the selected content is the
\* text of a candidate of the page, longer than 200 characters; a successful
\* result has such a body, and holds it.
C10_SuccessNeedsLongCandidate ==
  /\ Main.pc \in {"format", "cache_write", "cache_limit", "evict_min", "evict_del"} =>
       /\ TextLen(Main.content) > 200
       /\ \E i \in 1..4 :
            /\ ~Main.soup.strategies[i].raises
            /\ Main.soup.strategies[i].text = Main.content
  /\ (Main.pc = "returned" /\ Main.outcome = "Success") =>
       /\ TextLen(Main.content) > 200
       /\ Contains(Main.result, Main.content)
  /\ (Main.pc = "returned" /\ Main.outcome = "InsufficientContent") =>
       TextLen(Main.content) <= 200

\* a success whose body is the 201-character candidate
C10_Witness ==
  /\ Main.pc = "returned"
  /\ Main.outcome = "Success"
  /\ Main.content = << "text201" >>

\* the strategies of a page whose outcome qualifies by its length
Qualifying(soup) ==
  { i \in 1..4 : /\ ~extraction_strategies(soup)[i].raises
                 /\ TextLen(extraction_strategies(soup)[i].text) > 200 }

\* strategy i is the earliest of those with the highest score among the set
EarliestHighest(soup, set, i) ==
  LET cands == extraction_strategies(soup)
  IN /\ i \in set
     /\ \A j \in set : cands[j].score <= cands[i].score
     /\ \A j \in set : j < i => cands[j].score < cands[i].score

\* C11: the extraction step selects the candidate of highest score among
\* the strategy outputs longer than 200 characters, the earliest strategy's
\* on a tie, and reports InsufficientContent if and only if no strategy
\* yields a text longer than 200 characters.
C11_HighestQualifyingWins ==
  [][ Main.pc = "extract" /\ Main'.pc # "extract" =>
        LET cands == extraction_strategies(Main.soup)
            set == Qualifying(Main.soup)
        IN /\ (set = {}) <=> (Main'.outcome = "InsufficientContent")
           /\ set # {} =>
                \E i \in set :
                  /\ EarliestHighest(Main.soup, set, i)
                  /\ Main'.content = cands[i].text
                  /\ Main'.content_metadata = ElementMetadata(cands[i]) ]_vars

\* the outcomes of the strategies that did not raise, in their order
NonRaising(cands) == SelectSeq(cands, LAMBDA c : ~c.raises)

\* C12: with any of the strategies raising, the extraction step does not
\* raise and selects what it selects from the outcomes of the other
\* strategies alone; it reports InsufficientContent only when none of these
\* is longer than 200 characters.
C12_RaisingStrategiesIsolated ==
  [][ Main.pc = "extract" /\ Main'.pc # "extract" =>
        LET cands == extraction_strategies(Main.soup)
            alone == SelectFrom(NonRaising(cands), 1, NoBest)
        IN /\ Main'.pc \in {"format", "returned"}
           /\ Main'.cause = NoExc
           /\ Main'.content = alone.content
           /\ Main'.content_metadata = alone.metadata
           /\ Main'.outcome = "InsufficientContent" =>
                \A i \in 1..4 : ~cands[i].raises => TextLen(cands[i].text) <= 200 ]_vars

\* C13: cleaning a text that enhanced_text_cleaning has cleaned returns it
\* unchanged.
C13_CleaningIdempotent ==
  Main.passes = 2 => Main.text = Main.once

\* a text that the first cleaning changed, without emptying it, cleaned twice
C13_Witness ==
  /\ Main.passes = 2
  /\ Main.once # Main.raw
  /\ Main.once # << >>
  /\ Len(SplitLines(Main.once)) > 1

\* the strategy whose candidate the selection loop keeps, 0 if none
RECURSIVE WinnerFrom(_, _, _, _)
WinnerFrom(cands, i, best, winner) ==
  IF i > Len(cands) THEN winner
  ELSE LET next == SelectStep(best, cands[i])
       IN WinnerFrom(cands, i + 1, next, IF next # best THEN i ELSE winner)

\* C14: on a tree with an article element (the tree the strategies are
\* given), if the candidate of the semantic strategy is longer than 200
\* characters then its score is at least 100 points, the score of the
\* length heuristic is at most 80 points, and the extraction step keeps the
\* candidate of a strategy other than the length heuristic.
C14_SemanticBeatsLengthHeuristic ==
  [][ ( /\ Main.pc = "extract" /\ Main'.pc # "extract"
        /\ HasTree(Main.soup)
        /\ find_all(Main.soup.tree, {"article"}) # {}
        /\ ~extract_semantic_content(Main.soup).raises
        /\ TextLen(extract_semantic_content(Main.soup).text) > 200 ) =>
        LET cands == extraction_strategies(Main.soup)
            winner == WinnerFrom(cands, 1, NoBest, 0)
        IN /\ cands[1].score >= 100 * ScoreUnit
           /\ cands[2].score <= 80 * ScoreUnit
           /\ winner \in {1, 3, 4}
           /\ Main'.pc = "format"
           /\ Main'.content = cands[winner].text
           /\ Main'.content_metadata = ElementMetadata(cands[winner]) ]_vars

\* an article whose text the extraction kept although the length heuristic
\* gave another element its highest score
C14_Witness ==
  /\ Main.pc = "format"
  /\ HasTree(Main.soup)
  /\ find_all(Main.soup.tree, {"article"}) # {}
  /\ extract_by_length_heuristics(Main.soup).score = 80 * ScoreUnit
  /\ extract_by_length_heuristics(Main.soup).element_type = "div"
  /\ Main.content = extract_semantic_content(Main.soup).text
  /\ Main.content # extract_by_length_heuristics(Main.soup).text
  /\ Main.content_metadata.element_type = "article"

\* an element the sanitization is to remove: by its tag, or by its class
\* or id being one of the advertisement, sidebar, comments, social-share
\* and related-articles names
IsUnwanted(n) ==
  \/ n.tag \in {"script", "style", "nav", "header", "footer", "aside"}
  \/ n.class \in {"advertisement", "ad", "sidebar", "comments", "social-share",
                  "related-articles"}
  \/ n.id = "comments"

\* the words of the page that occur inside unwanted elements only
UnwantedOnly(nodes) ==
  LET inside == { i \in 1..Len(nodes) :
                    \/ IsUnwanted(nodes[i])
                    \/ \E a \in 1..Len(nodes) : IsUnder(nodes, i, a) /\ IsUnwanted(nodes[a]) }
      words(set) == { tok \in UNION { Range(nodes[i].text) : i \in set } : ~IsSpace(tok) }
  IN words(inside) \ words((1..Len(nodes)) \ inside)

\* C15: once scrape_article has sanitized the tree, no script, style, nav,
\* header, footer or aside element and no element of an advertisement,
\* sidebar, comments, social-share or related-articles class or id is left in
\* it, and neither the extracted body nor the formatted result contains a
\* word that the page has inside such elements only.
C15_UnwantedTextExcluded ==
  HasTree(Main.soup) =>
    /\ \A i \in 1..Len(Main.soup.tree.nodes) :
         i \notin Main.soup.tree.gone => ~IsUnwanted(Main.soup.tree.nodes[i])
    /\ UnwantedOnly(Main.soup.tree.nodes) \cap Range(Main.content) = {}
    /\ UnwantedOnly(Main.soup.tree.nodes) \cap Range(Main.final_content) = {}

\* a successful result whose element had a nav with text of its own below it
C15_Witness ==
  /\ Main.pc = "cache_write"
  /\ HasTree(Main.soup)
  /\ Main.soup.tree.nodes[2].tag = "nav"
  /\ Main.soup.tree.nodes[2].parent = 1
  /\ "menu16" \in UnwantedOnly(Main.soup.tree.nodes)
  /\ "menu16" \in Range(get_text(BeautifulSoup(Main.soup.tree.nodes), 1))
  /\ Main.content_metadata.element_type = Main.soup.tree.nodes[1].tag
  /\ Main.content_metadata.word_count = 1
  /\ TextLen(Main.final_content) > 200

\* the MIME type of a Content-Type value: the part before the parameters
MimeType(ct) ==
  IF \E i \in 1..Len(ct) : ct[i] = ";"
  THEN SubSeq(ct, 1, (CHOOSE i \in 1..Len(ct) :
                        ct[i] = ";" /\ \A j \in 1..(i - 1) : ct[j] # ";") - 1)
  ELSE ct

\* C16: a fetched response whose Content-Type has a MIME type other than
\* text/html (the header may be missing) is not parsed: the content-type
\* check returns the UnsupportedContentType message and the cache is left
\* as it was.
C16_OnlyHtmlIsParsed ==
  [][ ( /\ Main.pc = "content_type" /\ Main'.pc # "content_type"
        /\ MimeType(LowerAll(Main.response.content_type)) # HtmlType ) =>
        /\ Main'.pc = "returned"
        /\ Main'.outcome = "UnsupportedContentType"
        /\ extraction_cache' = extraction_cache ]_vars

\* C17: a URL fails validation exactly when it does not parse with scheme
\* http or https and a non-empty host, or its scheme is javascript, data or
\* file, or it holds a character that is not ASCII; every ASCII http or https
\* URL with a host passes.
C17_ValidExactlyHttpHostAscii ==
  Main.pc \notin {"idle", "validate"} =>
    ( (Main.pc = "returned" /\ Main.outcome = "InvalidURL")
      <=> ~( /\ urlparse_scheme(Main.url) \in {"http", "https"}
             /\ urlparse_netloc(Main.url) # ""
             /\ urlparse_scheme(Main.url) \notin {"javascript", "data", "file"}
             /\ \A i \in 1..Len(Main.url) : Main.url[i] \notin NonAsciiTokens ) )

Keys(cache) == {cache[i].key : i \in 1..Len(cache)}

Entry(cache, k) == cache[IndexOf(cache, k)]

\* the entries of the keys in set are the same in both caches
SameEntries(before, after, set) ==
  \A k \in set : /\ HasKey(before, k) <=> HasKey(after, k)
                 /\ HasKey(before, k) => Entry(after, k) = Entry(before, k)

\* C18: a call changes the cache only by the write of a fresh extraction
\* that succeeds, and this write changes the entry of the hash of its own URL
\* and no other; a call that ends in any other outcome has left the cache
\* as it was, and no entry still within its TTL is changed or removed.
C18_OnlyOwnEntryWritten ==
  [][ /\ (InCall(Main) /\ extraction_cache' # extraction_cache) =>
           /\ Main.pc = "cache_write"
           /\ SameEntries(extraction_cache, extraction_cache',
                          (Keys(extraction_cache) \cup Keys(extraction_cache'))
                            \ {md5(Main.url)})
           /\ SameEntries(extraction_cache, extraction_cache',
                          { k \in Keys(extraction_cache) :
                              now - Entry(extraction_cache, k).time < CacheTTL })
      /\ (InCall(Main) /\ Main'.pc = "returned" /\ Main'.outcome # "Success") =>
           Main.cache_writes = 0 ]_vars

\* C18, amended: a call changes the cache only by the write of a fresh
\* extraction that succeeds and by the eviction that follows it when the
\* cache holds more than CacheLimit entries: the write changes the entry of
\* the hash of its own URL and no other, the eviction removes one entry of
\* smallest time and changes no other; a call that ends in any other
\* outcome has left the cache as it was, and no entry still within its TTL
\* is given a new value.
C18_OwnEntryWrittenOldestEvicted ==
  [][ /\ (InCall(Main) /\ extraction_cache' # extraction_cache) =>
           \/ /\ Main.pc = "cache_write"
              /\ Main.cache_writes = 0
              /\ HasKey(extraction_cache', md5(Main.url))
              /\ Entry(extraction_cache', md5(Main.url)).content = Main.final_content
              /\ SameEntries(extraction_cache, extraction_cache',
                             (Keys(extraction_cache) \cup Keys(extraction_cache'))
                               \ {md5(Main.url)})
           \/ /\ Main.pc = "evict_del"
              /\ Main.cache_writes = 1
              /\ Len(extraction_cache) > CacheLimit
              /\ \E k \in Keys(extraction_cache) :
                   /\ \A j \in Keys(extraction_cache) :
                        Entry(extraction_cache, k).time <= Entry(extraction_cache, j).time
                   /\ Keys(extraction_cache') = Keys(extraction_cache) \ {k}
                   /\ SameEntries(extraction_cache, extraction_cache',
                                  Keys(extraction_cache) \ {k})
      /\ (InCall(Main) /\ Main'.pc = "returned" /\ Main'.outcome # "Success") =>
           Main.cache_writes = 0
      /\ (InCall(Main) /\ Main'.pc = "returned" /\ Main'.outcome = "Success") =>
           Main.cache_writes = 1
      /\ (InCall(Main) /\ extraction_cache' # extraction_cache) =>
           \A k \in Keys(extraction_cache) \cap Keys(extraction_cache') :
             now - Entry(extraction_cache, k).time < CacheTTL =>
               Entry(extraction_cache', k) = Entry(extraction_cache, k) ]_vars

\* a successful fresh extraction has replaced the expired entry of its URL
\* in a full cache, or has added its entry and evicted the oldest one
C18_Witness ==
  /\ Main.pc = "returned"
  /\ Main.outcome = "Success"
  /\ Main.cache_writes = 1
  /\ Len(extraction_cache) = CacheLimit
  /\ HasKey(extraction_cache, md5(Main.url))
  /\ Entry(extraction_cache, md5(Main.url)).content = Main.result
  /\ ~HasKey(extraction_cache, md5(WarmURL(1)))

\* C19: an extraction of a URL that follows a successful extraction of the
\* same URL in the process, started from the scraper dialog less than the
\* TTL after it, returns the cached marker and that result and issues no GET.
C19_CacheSharedByDialogScrapes ==
  ( /\ Main.pc = "returned"
    /\ Main.prev_op.kind = "fresh"
    /\ Main.prev_op.url = Main.url
    /\ now - Main.prev_op.time < CacheTTL ) =>
    /\ Main.result = CachedMarker \o Main.prev_op.content
    /\ Main.gets = 0

\* the pieces that open the lines the formatting puts around the body
WrapperMarks ==
  { "[newspaper] **", "[writing] Author: ", "[calendar] Published: ",
    "[memo] Description: ", SeparatorRule[1], "\n[chart] Extracted from ",
    "[ruler] Content: " } \cup Range(CachedMarker)

\* C20: the text the dialog passes on to the sentiment or spam classifier
\* after a successful scrape is the cleaned body of the article: no title,
\* author, date or description line, no separator rule, no statistics line
\* and no cached marker is in it.
C20_ClassifiersGetBodyOnly ==
  (frame[Dialog].classifier # "" /\ Main.outcome \in {"Success", "Cached"}) =>
    /\ Range(frame[Dialog].forwarded) \cap WrapperMarks = {}
    /\ Main.outcome = "Success" => frame[Dialog].forwarded = Main.content

Fresh(cache, k, time) == HasKey(cache, k) /\ time - Entry(cache, k).time < CacheTTL

\* C22: a lookup is a hit exactly when the cache holds an entry of the URL
\* whose age is below 3600; a lookup leaves the cache as it is; an entry
\* is changed only by the write of an extraction of its own URL and leaves
\* the cache only as the oldest entry of an eviction or with all entries in
\* clear_cache; the call that follows clear_cache is a miss.
C22_LookupHitsBelowTTL ==
  [][ /\ (Main.pc \in {"cache_check", "cache_get"} /\ frame' # frame) =>
           /\ extraction_cache' = extraction_cache
           /\ Main'.pc \notin {"cache_check", "cache_get"} =>
                ( (Main'.pc = "returned" /\ Main'.outcome = "Cached")
                    <=> Fresh(extraction_cache, md5(Main.url), now) )
      /\ extraction_cache' # extraction_cache =>
         \A k \in Keys(extraction_cache) :
           \/ /\ HasKey(extraction_cache', k)
              /\ Entry(extraction_cache', k) = Entry(extraction_cache, k)
           \/ /\ HasKey(extraction_cache', k)
              /\ Main.pc = "cache_write"
              /\ k = md5(Main.url)
              /\ ~Fresh(extraction_cache, k, Main.lookup_time)
           \/ /\ ~HasKey(extraction_cache', k)
              /\ Main.pc = "evict_del"
              /\ \A j \in Keys(extraction_cache) :
                   Entry(extraction_cache, k).time <= Entry(extraction_cache, j).time
           \/ /\ extraction_cache' = << >>
              /\ last_op'.kind = "clear"
      /\ (Main.pc = "returned" /\ Main.prev_op.kind = "clear") =>
           /\ Main.outcome # "Cached"
           /\ Main.lookup_time = 0 ]_vars

\* a lookup at age exactly 3600 has missed and the entry is still stored, in
\* a full cache
C22_Witness ==
  /\ Main.pc = "headers"
  /\ HasKey(extraction_cache, md5(Main.url))
  /\ Main.lookup_time - Entry(extraction_cache, md5(Main.url)).time = CacheTTL
  /\ Len(extraction_cache) = CacheLimit

\* the nodes of a parsed page that are JSON-LD scripts holding a JSON object
LdObjects(soup) ==
  { i \in 1..Len(soup.nodes) :
      /\ soup.nodes[i].tag = "script"
      /\ soup.nodes[i].attr = LdJson
      /\ ~json_loads(soup.nodes[i].text).raises
      /\ json_loads(soup.nodes[i].text).kind = "dict" }

\* C23: the metadata computed in a call for a page that holds a JSON-LD
\* script whose body is a JSON object has the fields of that object under
\* structured_data.
C23_JsonLdInMetadata ==
  [][ ( /\ Main.pc = "parse"
        /\ Main'.pc = "extract"
        /\ HasTree(Main.response.page) ) =>
        \A i \in LdObjects(Main.response.page.tree) :
          /\ "structured_data" \in DOMAIN Main'.metadata
          /\ \A k \in DOMAIN json_loads(Main.response.page.tree.nodes[i].text).items[1] :
               k \in DOMAIN Main'.metadata.structured_data ]_vars

\* the text holds n times tok in a row
HasRun(text, tok, n) ==
  \E i \in 1..(Len(text) - n + 1) : \A j \in i..(i + n - 1) : text[j] = tok

\* C24: a text that enhanced_text_cleaning returns has no line of 1 to 5
\* characters, no two empty lines in a row, no white space at its start or
\* end, no tab, no carriage return, no two spaces in a row and no four
\* '!', four '?' or four '.' in a row.
C24_CleanedTextShape ==
  Main.passes >= 1 =>
    LET lines == SplitLines(Main.text)
    IN /\ \A i \in 1..Len(lines) : TextLen(lines[i]) \notin 1..5
       /\ \A i \in 1..(Len(lines) - 1) : lines[i] # << >> \/ lines[i + 1] # << >>
       /\ Main.text # << >> => ~IsSpace(Main.text[1]) /\ ~IsSpace(Main.text[Len(Main.text)])
       /\ Range(Main.text) \cap {"\t", "\r"} = {}
       /\ ~HasRun(Main.text, " ", 2)
       /\ \A mark \in {"!", "?", "."} : ~HasRun(Main.text, mark, 4)

\* a text with a short line, a tab and a carriage return has been cleaned
\* to a text that is not empty
C24_Witness ==
  /\ Main.passes = 1
  /\ Main.text # << >>
  /\ {"\t", "\r", "w2"} \subseteq Range(Main.raw)
  /\ Len(SplitLines(NormalizeLineEndings(Main.raw))) > Len(SplitLines(Main.text))

\* strategy i runs in this step
Runs(i) ==
  /\ Len(Main'.ran) = Len(Main.ran) + 1
  /\ Main'.ran[Len(Main'.ran)] = i

\* the elements among the tags whose text has at least least characters
LongEnough(soup, tags, least) ==
  { e \in find_all(soup, tags) : TextLen(get_text(soup, e)) >= least }

\* the elements with a sentence terminator and a word whose readability is
\* above 0: fewer than 37.5 words a sentence, or a paragraph or a header
WithSentence(soup) ==
  { e \in 1..Len(soup.nodes) :
      /\ SentenceCount(get_text(soup, e)) > 0
      /\ WordCount(get_text(soup, e)) > 0
      /\ \/ 2 * WordCount(get_text(soup, e)) < 75 * SentenceCount(get_text(soup, e))
         \/ ParagraphCount(soup, e) > 0
         \/ HeaderCount(soup, e) > 0 }

\* the readability strategy returns an element exactly when one has at
\* least 100 characters of text, a terminator and a word, and returns such one
ReadabilityRejectsBelow100 ==
  Runs(4) =>
    LET open == LongEnough(Main.soup, {"div", "section", "article", "main"}, 100)
                  \cap WithSentence(Main.soup)
    IN /\ Main'.returned[4].element_type # "" <=> open # {}
       /\ open # {} =>
            Main'.returned[4].element_type \in { Main.soup.nodes[e].tag : e \in open }

Pos(string, piece) ==
  IF piece \in Range(string)
  THEN CHOOSE i \in 1..Len(string) :
         string[i] = piece /\ \A j \in 1..(i - 1) : string[j] # piece
  ELSE 0

\* the pieces stand in the string, one after the other
InOrder(string, pieces) ==
  /\ \A k \in 1..Len(pieces) : Pos(string, pieces[k]) > 0
  /\ \A k \in 1..(Len(pieces) - 1) : Pos(string, pieces[k]) < Pos(string, pieces[k + 1])

\* the markers of the meta lines a result is to have, with what follows each
MetaLines(metadata) ==
  (IF metadata.title # ""
   THEN << << "[newspaper] **", metadata.title >> >> ELSE << >>)
  \o (IF metadata.author # ""
      THEN << << "[writing] Author: ", metadata.author >> >> ELSE << >>)
  \o (IF metadata.publish_date # ""
      THEN << << "[calendar] Published: ", FirstTen(metadata.publish_date) >> >> ELSE << >>)
  \o (IF metadata.description # ""
      THEN << << "[memo] Description: ", metadata.description >> >> ELSE << >>)

\* the string has the meta lines of the fields that exist and no other, the
\* rule if it is to have one, the content and the statistics, in this order
Shaped(string, metadata, content, content_metadata, rule) ==
  LET lines == MetaLines(metadata)
      body == Pos(string, content[1])
  IN /\ InOrder(string,
                [k \in 1..Len(lines) |-> lines[k][1]]
                  \o (IF rule THEN SeparatorRule ELSE << >>)
                  \o << content[1], "\n[chart] Extracted from ", "[ruler] Content: " >>)
     /\ \A k \in 1..Len(lines) : string[Pos(string, lines[k][1]) + 1] = lines[k][2]
     /\ Cardinality(Range(string) \cap { "[newspaper] **", "[writing] Author: ",
                                         "[calendar] Published: ", "[memo] Description: " })
          = Len(lines)
     /\ rule <=> SeparatorRule[1] \in Range(string)
     /\ SubSeq(string, body, body + Len(content) - 1) = content
     /\ string[body + Len(content)] = "\n"
     /\ Pos(string, "\n[chart] Extracted from ") = body + Len(content) + 1
     /\ string[Pos(string, "\n[chart] Extracted from ") + 1] = content_metadata.element_type
     /\ string[Pos(string, "[ruler] Content: ") + 1] = ToString(content_metadata.word_count)
     /\ string[Len(string)] = " paragraphs"

\* C26: the string a successful extraction formats has the title line if
\* there is a title, the author, date and description lines that exist, the
\* separator rule, the cleaned body and the statistics, in this order; the
\* rule and the statistics are there whatever meta fields exist.
C26_RuleAndStatisticsAlways ==
  [][ (Main.pc = "format" /\ Main'.pc = "cache_write") =>
        Shaped(Main'.final_content, Main.metadata, Main.content,
               Main.content_metadata, TRUE) ]_vars

\* C26, amended: as C26, but the rule is there exactly when one of the
\* title, author, date and description lines is.
C26_RuleWithMetaLines ==
  [][ (Main.pc = "format" /\ Main'.pc = "cache_write") =>
        Shaped(Main'.final_content, Main.metadata, Main.content,
               Main.content_metadata, MetaLines(Main.metadata) # << >>) ]_vars

\* a successful result of a page without meta fields: no rule, and the
\* statistics at its end
C26_Witness ==
  /\ Main.pc = "returned"
  /\ Main.outcome = "Success"
  /\ SeparatorRule[1] \notin Range(Main.result)
  /\ StartsWith(Main.result, Main.content)
  /\ "[ruler] Content: " \in Range(Main.result)

\* the category of a failed fetch
FetchFailures == {"TransportTimeout", "ConnectionFailure", "HTTPStatusError"}

\* C27: what a call returns after its attempts depends on the last attempt
\* alone: once an attempt has brought a response that passes, the call goes
\* on with that response and ends in no fetch failure, whatever failed
\* before; when the last attempt failed, the call has returned the message
\* of the category of that failure and of no other.
C27_LastAttemptDecides ==
  /\ (Main.gets >= 1 /\ Main.last_attempt = NoExc) =>
       /\ Main.pc # "get"
       /\ Main.pc = "content_type" => raise_for_status(Main.response) = NoExc
       /\ Main.pc = "returned" => Main.outcome \notin FetchFailures
       /\ (Main.pc = "returned" /\ Main.cause # NoExc) => ~IsRequestException(Main.cause)
  /\ (Main.gets >= 1 /\ Main.last_attempt # NoExc) =>
       /\ Main.pc \in {"get", "returned"}
       /\ Main.pc = "returned" =>
            /\ Main.cause = Main.last_attempt
            /\ Range(Main.result) \cap AllMarkers = {TaxonomyMarker(Main.last_attempt)}
            /\ Main.outcome \in FetchFailures <=>
                 Main.last_attempt.cls \notin {"TooManyRedirects"}

\* a third attempt has failed on the connection after two attempts failed
C27_Witness ==
  /\ Main.pc = "returned"
  /\ Main.gets = max_retries
  /\ Main.last_attempt.cls = "ConnectionError"
  /\ Main.outcome = "ConnectionFailure"

\* C28: when detect has returned, process_spam has shown the result in the
\* preview and in the result window, and no critical box: the box is left
\* to the case that detect raises.
C28_SpamResultShown ==
  Main.pc = "processed" =>
    /\ Main.critical = ""
    /\ Main.spam_preview # NoWindow
    /\ Main.result_window # NoWindow

\* C29: what analyze_sentiment and analyze_spam pass on to a classifier is
\* the text of an article: the last scrape of the dialog has succeeded or
\* was served from the cache, and the text carries the marker of no failure.
C29_FailuresNotForwarded ==
  frame[Dialog].classifier # "" =>
    /\ Main.pc = "returned"
    /\ Main.outcome \in {"Success", "Cached"}
    /\ Range(frame[Dialog].forwarded) \cap AllMarkers = {}

\* C30: _emotion_to_sentiment returns Positive for every label of
\* positive_emotions, Negative for every label of negative_emotions and
\* Neutral for every label of neutral_emotions
C30_ListsDecideSentiment ==
  (Main.pc = "returned" /\ Main.model_type \in {"emotion", "go_emotions"}) =>
    LET e == lower(Main.result.label)
    IN /\ e \in Range(positive_emotions) => Main.returned.sentiment = "Positive"
       /\ e \in Range(negative_emotions) => Main.returned.sentiment = "Negative"
       /\ e \in Range(neutral_emotions) => Main.returned.sentiment = "Neutral"

====
